---- MODULE Spec2Model ----
(***************************************************************************)
(* Sample-sheet normalisation and validation engine of the CoreSeq         *)
(* samplesheet validator: the NextSeq 2000 page (handleFile,               *)
(* processContent, processRows, handleReverseComplementToggle) and the     *)
(* string utilities (reverseComplement, removeSpecialChars,                *)
(* replaceSpecialCharacters).                                              *)
(*                                                                         *)
(* A JavaScript string is modelled as a sequence of one-character strings, *)
(* so that split, trim, toLowerCase, includes and the regular-expression   *)
(* replacements are computed character by character.                       *)
(***************************************************************************)
EXTENDS Integers, Sequences, FiniteSets, TLC

VARIABLES
  file,                \* nextseq2k: let file (the structured upload), NoFile = null
  fileContent,         \* nextseq2k: let fileContent
  result,              \* nextseq2k: let result
  error,               \* nextseq2k: let error
  headers,             \* nextseq2k: let headers
  rows,                \* nextseq2k: let rows
  originalRows,        \* nextseq2k: let originalRows
  headerSection,       \* nextseq2k: let headerSection
  reverseComplement2k, \* the store bound to the reverse-complement checkbox
  reverseComplement500, \* nextseq500: the store bound to its checkbox
  download,            \* the text of the last file offered for download
  reads,               \* the files whose text a handleFile call is awaiting
  loads,               \* number of handleFile calls made so far
  input,               \* utilities: the string a chain of utility calls started from
  prev,                \* utilities: the argument of the last utility call
  value,               \* utilities: the value returned by the last utility call
  applied              \* utilities: the calls made so far, in order

otherPageVars == <<reverseComplement500, download>>
pageVars == <<file, fileContent, result, error, headers, rows, originalRows,
              headerSection, reverseComplement2k, reads, loads,
              reverseComplement500, download>>
utilVars == <<input, prev, value, applied>>
vars == <<file, fileContent, result, error, headers, rows, originalRows,
          headerSection, reverseComplement2k, reads, loads, input, prev, value, applied,
          reverseComplement500, download>>

(***************************************************************************)
(* Bounds of the model.                                                    *)
(***************************************************************************)
MaxLen == 3      \* longest input string of a utility call
MaxApply == 2    \* longest chain of utility calls on one input
MaxRows == 2     \* most data lines in one uploaded sheet
MaxLoads == 2    \* most files loaded in one behaviour

(***************************************************************************)
(* Characters and JavaScript string primitives.                            *)
(***************************************************************************)
UpperChars == <<"A","B","C","D","E","F","G","H","I","J","K","L","M",
                "N","O","P","Q","R","S","T","U","V","W","X","Y","Z">>
LowerChars == <<"a","b","c","d","e","f","g","h","i","j","k","l","m",
                "n","o","p","q","r","s","t","u","v","w","x","y","z">>
DigitChars == {"0","1","2","3","4","5","6","7","8","9"}

\* the value JavaScript yields for a missing array element
Undefined == <<"undefined">>

\* the character class \w of a JavaScript regular expression
IsWordChar(c) ==
  \/ \E i \in 1..26 : c = UpperChars[i] \/ c = LowerChars[i]
  \/ c \in DigitChars
  \/ c = "_"

\* the characters String.prototype.trim removes (those the model uses)
IsWhiteSpace(c) == c \in {" ", "\t", "\n", "\r"}

\* the characters the regular-expression dot does not match
IsLineTerminator(c) == c \in {"\n", "\r"}

toLowerCaseChar(c) ==
  IF \E i \in 1..26 : c = UpperChars[i]
  THEN LowerChars[CHOOSE i \in 1..26 : c = UpperChars[i]]
  ELSE c

toLowerCase(s) == [i \in 1..Len(s) |-> toLowerCaseChar(s[i])]

\* the positions of s, in order, that hold the character c
positionsOf(s, c) ==
  SelectSeq([i \in 1..Len(s) |-> i], LAMBDA i : s[i] = c)

trim(s) ==
  LET kept == SelectSeq([i \in 1..Len(s) |-> i], LAMBDA i : ~IsWhiteSpace(s[i]))
  IN  IF kept = <<>> THEN <<>> ELSE SubSeq(s, kept[1], kept[Len(kept)])

reverse(s) == [i \in 1..Len(s) |-> s[Len(s) + 1 - i]]

includes(s, sub) ==
  \E i \in 1..(Len(s) - Len(sub) + 1) : SubSeq(s, i, i + Len(sub) - 1) = sub

\* s.split(sep) for a one-character separator: never empty, "" gives [""]
split(s, sep) ==
  LET seps == positionsOf(s, sep)
  IN  [k \in 1..(Len(seps) + 1) |->
         SubSeq(s, IF k = 1 THEN 1 ELSE seps[k - 1] + 1,
                   IF k <= Len(seps) THEN seps[k] - 1 ELSE Len(s))]

\* content.split(/\r?\n/): a separator is "\n" together with a "\r" right
\* before it; a "\r" not followed by "\n" is ordinary text
splitLines(content) ==
  LET seps == positionsOf(content, "\n")
      first(k) == IF k = 1 THEN 1 ELSE seps[k - 1] + 1
      last(k) == IF k <= Len(seps) THEN seps[k] - 1 ELSE Len(content)
  IN  [k \in 1..(Len(seps) + 1) |->
         SubSeq(content, first(k),
                IF k <= Len(seps) /\ last(k) >= first(k) /\ content[last(k)] = "\r"
                THEN last(k) - 1 ELSE last(k))]

\* parts.join(sep), sep a string
RECURSIVE join(_, _)
join(parts, sep) ==
  IF parts = <<>> THEN <<>>
  ELSE IF Len(parts) = 1 THEN parts[1]
  ELSE parts[1] \o sep \o join(Tail(parts), sep)

\* array.indexOf(x), 1-based; 0 stands for JavaScript's -1
indexOf(array, x) ==
  IF \E i \in 1..Len(array) : array[i] = x
  THEN CHOOSE i \in 1..Len(array) : array[i] = x /\ \A j \in 1..(i - 1) : array[j] # x
  ELSE 0

(***************************************************************************)
(* utils: reverseComplement                                                *)
(***************************************************************************)
DNA_COMPLEMENT_Swapless(base) ==
  CASE base = "A" -> "T"
    [] base = "T" -> "A"
    [] base = "C" -> "G"
    [] base = "G" -> "G"
    [] OTHER -> base

\* DNA_COMPLEMENT[base] || base
DNA_COMPLEMENT(base) ==
  CASE base = "A" -> "T"
    [] base = "T" -> "A"
    [] base = "C" -> "G"
    [] base = "G" -> "C"
    [] OTHER -> base

reverseComplement(sequence) ==
  LET reversed == reverse(sequence)
  IN  [i \in 1..Len(reversed) |-> DNA_COMPLEMENT(reversed[i])]

(***************************************************************************)
(* utils: removeSpecialChars                                               *)
(***************************************************************************)
\* the class [^a-zA-Z0-9\-_]
IsSpecialChar(c) == ~(IsWordChar(c) \/ c = "-")

\* the class [\W_]
IsNonWordOrUnderscore(c) == ~IsWordChar(c) \/ c = "_"

\* whether one character matches a one-character pattern: a character class
\* of the source, the dot, or a literal character
PatternMatches(pattern, c) ==
  CASE pattern = "[^a-zA-Z0-9\\-_]" -> IsSpecialChar(c)
    [] pattern = "[\\W_]" -> IsNonWordOrUnderscore(c)
    [] pattern = "." -> ~IsLineTerminator(c)
    [] OTHER -> c = pattern

\* text.replace(/X+/g, by): every maximal run of characters matching the
\* one-character pattern X becomes one copy of by
replaceRuns(text, pattern, by) ==
  LET piece(i) ==
        IF PatternMatches(pattern, text[i])
        THEN (IF i > 1 /\ PatternMatches(pattern, text[i - 1]) THEN <<>> ELSE by)
        ELSE <<text[i]>>
  IN  join([i \in 1..Len(text) |-> piece(i)], <<>>)

\* text.replace(/X/g, by): every single character matching X becomes by
replaceEach(text, pattern, by) ==
  [i \in 1..Len(text) |-> IF PatternMatches(pattern, text[i]) THEN by ELSE text[i]]

removeSpecialChars_NoCollapse(text, replaceChar, collapseRepeat) ==
  replaceEach(text, "[^a-zA-Z0-9\\-_]", replaceChar)

removeSpecialChars_CollapseFirst(text, replaceChar, collapseRepeat) ==
  LET collapsed == IF collapseRepeat
                   THEN replaceRuns(text, replaceChar, <<replaceChar>>)
                   ELSE text
  IN  replaceEach(collapsed, "[^a-zA-Z0-9\\-_]", replaceChar)

\* the collapse pattern is built from replaceChar itself: `${replaceChar}+`
removeSpecialChars(text, replaceChar, collapseRepeat) ==
  LET replaced == replaceEach(text, "[^a-zA-Z0-9\\-_]", replaceChar)
  IN  IF collapseRepeat
      THEN replaceRuns(replaced, replaceChar, <<replaceChar>>)
      ELSE replaced

(***************************************************************************)
(* utils: replaceSpecialCharacters                                         *)
(***************************************************************************)
\* the first two replacements of replaceSpecialCharacters
hyphenPasses(text) ==
  LET pass1 == replaceRuns(text, "[\\W_]", <<"-">>)
  IN  replaceRuns(pass1, "-", <<"-">>)

\* if (!text) return text: '' and undefined are returned as they are
replaceSpecialCharacters(text) ==
  IF text = <<>> \/ text = Undefined THEN text
  ELSE replaceRuns(hyphenPasses(text), "_", <<"_">>)

(***************************************************************************)
(* Utility calls on bounded inputs.                                        *)
(***************************************************************************)
Alphabet == {"A", "C", "G", "T", "-", "_", " "}
ReplaceChars == {"-", "_", "."}

RECURSIVE StringsOfLen(_)
StringsOfLen(n) ==
  IF n = 0 THEN {<<>>}
  ELSE {Append(s, c) : s \in StringsOfLen(n - 1), c \in Alphabet}

InputStrings == UNION {StringsOfLen(n) : n \in 0..MaxLen}

\* let result: ValidationResult | null = null: result is a sequence that
\* holds the validation result when there is one
NoResult == <<>>

\* nothing has been offered for download
NoDownload == [csvContent |-> <<"null">>, removeProject |-> FALSE]

\* let file: File | null = null, as an upload without lines
NoFile == [pre |-> <<>>, body |-> <<>>, eol |-> <<>>, trailing |-> FALSE]

PageInit ==
  /\ file = NoFile
  /\ fileContent = <<>>
  /\ result = NoResult
  /\ error = [msg |-> "null", detail |-> <<>>]
  /\ headers = <<>>
  /\ rows = <<>>
  /\ originalRows = <<>>
  /\ headerSection = <<>>
  /\ reverseComplement2k = FALSE
  /\ reverseComplement500 = FALSE
  /\ download = NoDownload
  /\ reads = <<>>
  /\ loads = 0

UtilIdle ==
  /\ input = <<>>
  /\ prev = <<>>
  /\ value = <<>>
  /\ applied = <<>>

UtilInit ==
  /\ input \in InputStrings
  /\ prev = input
  /\ value = input
  /\ applied = <<>>
  /\ PageInit

CallReverseComplement ==
  /\ Len(applied) < MaxApply
  /\ prev' = value
  /\ value' = reverseComplement(value)
  /\ applied' = Append(applied,
        [fn |-> "reverseComplement", replaceChar |-> "", collapseRepeat |-> FALSE])
  /\ UNCHANGED <<input, pageVars>>

CallRemoveSpecialChars ==
  \E replaceChar \in ReplaceChars, collapseRepeat \in BOOLEAN :
    /\ Len(applied) < MaxApply
    /\ prev' = value
    /\ value' = removeSpecialChars(value, replaceChar, collapseRepeat)
    /\ applied' = Append(applied,
          [fn |-> "removeSpecialChars", replaceChar |-> replaceChar,
           collapseRepeat |-> collapseRepeat])
    /\ UNCHANGED <<input, pageVars>>

CallReplaceSpecialCharacters ==
  /\ Len(applied) < MaxApply
  /\ prev' = value
  /\ value' = replaceSpecialCharacters(value)
  /\ applied' = Append(applied,
        [fn |-> "replaceSpecialCharacters", replaceChar |-> "", collapseRepeat |-> FALSE])
  /\ UNCHANGED <<input, pageVars>>

UtilNext ==
  \/ CallReverseComplement
  \/ CallRemoveSpecialChars
  \/ CallReplaceSpecialCharacters

SpecUtil == UtilInit /\ [][UtilNext]_vars

(***************************************************************************)
(* String constants of the NextSeq 2000 page.                              *)
(***************************************************************************)
HeaderMarker == <<"[","H","e","a","d","e","r","]">>
DataMarker == <<"[","B","C","L","C","o","n","v","e","r","t","_","D","a","t","a","]">>

\* const requiredColumns = ['sample_id', 'index2', 'index', 'sample_project']
requiredColumns ==
  <<<<"s","a","m","p","l","e","_","i","d">>,
    <<"i","n","d","e","x","2">>,
    <<"i","n","d","e","x">>,
    <<"s","a","m","p","l","e","_","p","r","o","j","e","c","t">>>>

SampleIdName == <<"s","a","m","p","l","e","_","i","d">>
IndexName == <<"i","n","d","e","x">>
Index2Name == <<"i","n","d","e","x","2">>
UnknownSample == <<"U","n","k","n","o","w","n">>
Comma == <<",">>

\* the header section processContent builds from the configuration fields
\* (run name, cycles, adapters and versions at their initial values)
ConfigHeaderSection ==
  <<<<"[","H","e","a","d","e","r","]",",",",",",">>,
    <<"F","i","l","e","F","o","r","m","a","t","V","e","r","s","i","o","n",",","2",",",",">>,
    <<"R","u","n","N","a","m","e",",","n","e","x","t","s","e","q","2","0","0","0",",",",">>,
    <<"I","n","s","t","r","u","m","e","n","t","P","l","a","t","f","o","r","m",",","N","e","x","t","S","e","q","1","k","2","k",",",",">>,
    <<"I","n","s","t","r","u","m","e","n","t","T","y","p","e",",","N","e","x","t","S","e","q","2","0","0","0",",",",">>,
    <<",",",",",">>,
    <<"[","R","e","a","d","s","]",",",",",",">>,
    <<"R","e","a","d","1","C","y","c","l","e","s",",","1","5","1",",",",">>,
    <<"R","e","a","d","2","C","y","c","l","e","s",",","1","5","1",",",",">>,
    <<"I","n","d","e","x","1","C","y","c","l","e","s",",","1","0",",",",">>,
    <<"I","n","d","e","x","2","C","y","c","l","e","s",",","1","0",",",",">>,
    <<",",",",",">>,
    <<"[","B","C","L","C","o","n","v","e","r","t","_","S","e","t","t","i","n","g","s","]",",",",",",">>,
    <<"S","o","f","t","w","a","r","e","V","e","r","s","i","o","n",",","4",".","2",".","7",",",",">>,
    <<"B","a","r","c","o","d","e","M","i","s","m","a","t","c","h","e","s","I","n","d","e","x","1",",","0",",",",">>,
    <<"B","a","r","c","o","d","e","M","i","s","m","a","t","c","h","e","s","I","n","d","e","x","2",",","0",",",",">>,
    <<"A","d","a","p","t","e","r","R","e","a","d","1",",","A","G","A","T","C","G","G","A","A","G","A","G","C","A","C","A","C","G","T","C","T","G","A","A","C","T","C","C","A","G","T","C","A",",",",">>,
    <<"A","d","a","p","t","e","r","R","e","a","d","2",",","A","G","A","T","C","G","G","A","A","G","A","G","C","G","T","C","G","T","G","T","A","G","G","G","A","A","A","G","A","G","T","G","T",",",",">>,
    <<"N","o","L","a","n","e","S","p","l","i","t","t","i","n","g",",","T","R","U","E",",",",">>,
    <<",",",",",">>,
    <<"[","B","C","L","C","o","n","v","e","r","t","_","D","a","t","a","]",",",",",",">>>>

(***************************************************************************)
(* Uploaded sheets.  An upload is a prelude of lines, at most one header   *)
(* row and up to MaxRows data lines, each line given by its raw cells,     *)
(* with the line ending the file uses.                                     *)
(***************************************************************************)
HdrCanonical == <<<<"S","a","m","p","l","e","_","I","D">>, <<"I","n","d","e","x","2">>, <<"I","n","d","e","x">>, <<"S","a","m","p","l","e","_","P","r","o","j","e","c","t">>>>
HdrPermuted == <<<<"L","a","n","e">>, <<"s","a","m","p","l","e","_","i","d">>, <<"I","N","D","E","X","2">>, <<" ","I","n","d","e","x"," ">>, <<"S","a","m","p","l","e","_","P","r","o","j","e","c","t">>>>
HdrMissingTwo == <<<<"I","n","d","e","x">>, <<"F","o","o">>, <<"S","a","m","p","l","e","_","I","D">>>>
HdrMissingAll == <<<<"S","a","m","p","l","e","_","N","a","m","e">>, <<"F","o","o">>, <<"B","a","r">>>>

PreFull == <<<<<<"[","H","e","a","d","e","r","]">>, <<>>, <<>>, <<>>>>, <<<<"R","u","n","N","a","m","e">>, <<"r","1">>>>, <<<<"[","B","C","L","C","o","n","v","e","r","t","_","D","a","t","a","]">>, <<>>, <<>>, <<>>>>>>
PreNoMarker == <<<<<<"[","H","e","a","d","e","r","]">>>>, <<<<"R","u","n","N","a","m","e">>, <<"r","1">>>>>>

LF == <<"\n">>
CRLF == <<"\r","\n">>

RowPool ==
  {<<<<"S","1">>, <<"T","T">>, <<"A","A">>, <<"P","1">>>>,
   <<<<" ","S",".","2"," ">>, <<"T","T">>, <<"A","A">>, <<"P","1">>, <<"x">>>>,
   <<<<>>, <<"T","T">>>>}

Layouts ==
  {[pre |-> <<>>, hdr |-> <<HdrCanonical>>, eol |-> LF, trailing |-> FALSE],
   [pre |-> <<>>, hdr |-> <<HdrPermuted>>, eol |-> CRLF, trailing |-> TRUE],
   [pre |-> <<>>, hdr |-> <<HdrMissingTwo>>, eol |-> LF, trailing |-> FALSE],
   [pre |-> <<>>, hdr |-> <<HdrMissingAll>>, eol |-> LF, trailing |-> FALSE],
   [pre |-> <<>>, hdr |-> <<>>, eol |-> LF, trailing |-> FALSE],
   [pre |-> <<>>, hdr |-> <<>>, eol |-> LF, trailing |-> TRUE],
   [pre |-> PreFull, hdr |-> <<HdrCanonical>>, eol |-> LF, trailing |-> TRUE],
   [pre |-> PreFull, hdr |-> <<HdrPermuted>>, eol |-> CRLF, trailing |-> FALSE],
   [pre |-> PreFull, hdr |-> <<HdrMissingTwo>>, eol |-> LF, trailing |-> FALSE],
   [pre |-> PreFull, hdr |-> <<>>, eol |-> LF, trailing |-> FALSE]}

\* a sheet with '[Header]' and no '[BCLConvert_Data]': every line of it is
\* header-section text, so it is uploaded with one data line at most
MarkerlessLayout ==
  [pre |-> PreNoMarker, hdr |-> <<HdrCanonical>>, eol |-> LF, trailing |-> FALSE]

RECURSIVE RowSeqs(_)
RowSeqs(n) ==
  IF n = 0 THEN {<<>>}
  ELSE RowSeqs(n - 1) \cup {Append(rs, r) : rs \in RowSeqs(n - 1), r \in RowPool}

upload(l, rs) ==
  [pre |-> l.pre, body |-> l.hdr \o rs, eol |-> l.eol, trailing |-> l.trailing]

Uploads ==
  {upload(l, rs) : l \in Layouts, rs \in RowSeqs(MaxRows)}
    \cup {upload(MarkerlessLayout, rs) : rs \in {<<>>} \cup {<<r>> : r \in RowPool}}

\* file.text(): the lines of the upload, cells joined by commas, lines
\* joined by the file's line ending
fileText(u) ==
  LET all == u.pre \o u.body
      lines == [i \in 1..Len(all) |-> join(all[i], Comma)]
  IN  join(lines, u.eol) \o (IF u.trailing THEN u.eol ELSE <<>>)

(***************************************************************************)
(* NextSeq 2000 page: processRows                                          *)
(***************************************************************************)
\* array[i] for a 1-based position i (0 stands for index -1)
at(array, i) == IF i \in 1..Len(array) THEN array[i] ELSE Undefined

\* v || d on strings
orElse(v, d) == IF v = Undefined \/ v = <<>> THEN d ELSE v

\* array[i] = v, extending the array when i is past its end
setCell(array, i, v) ==
  [j \in 1..(IF i > Len(array) THEN i ELSE Len(array)) |->
     IF j = i THEN v ELSE at(array, j)]

lowerAll(cells) == [i \in 1..Len(cells) |-> toLowerCase(cells[i])]

\* the keys of the Map indexCombinations, in insertion order
keysOf(indexCombinations) ==
  [i \in 1..Len(indexCombinations) |-> indexCombinations[i].key]

\* the map from index key to samples kept while the rows are scanned, and
\* the keys entered into duplicatedIndexes, both in insertion order
RECURSIVE collectIndexes(_, _, _, _, _, _)
collectIndexes(rs, sampleIdIndex, index1Index, index2Index, indexCombinations, duplicated) ==
  IF rs = <<>> THEN [indexCombinations |-> indexCombinations, duplicated |-> duplicated]
  ELSE LET row == Head(rs)
           sampleId == orElse(at(row, sampleIdIndex), UnknownSample)
           index1 == orElse(at(row, index1Index), <<>>)
           index2 == orElse(at(row, index2Index), <<>>)
           indexKey == index2 \o <<"-">> \o index1
           seen == indexOf(keysOf(indexCombinations), indexKey)
       IN  IF seen # 0
           THEN collectIndexes(Tail(rs), sampleIdIndex, index1Index, index2Index,
                  [indexCombinations EXCEPT ![seen].samples = Append(@, sampleId)],
                  IF indexOf(duplicated, indexKey) # 0 THEN duplicated
                  ELSE Append(duplicated, indexKey))
           ELSE collectIndexes(Tail(rs), sampleIdIndex, index1Index, index2Index,
                  Append(indexCombinations, [key |-> indexKey, samples |-> <<sampleId>>]),
                  duplicated)

\* duplicatedIndexes[indexKey] = samples: the array stored is the one kept in
\* indexCombinations, so it holds every sample collected under the key
samplesOf(indexCombinations, indexKey) ==
  indexCombinations[indexOf(keysOf(indexCombinations), indexKey)].samples

duplicatedIndexesOf(scan) ==
  [i \in 1..Len(scan.duplicated) |->
     [key |-> scan.duplicated[i],
      samples |-> samplesOf(scan.indexCombinations, scan.duplicated[i])]]

\* newRow of one row: the Sample_ID cell replaced by its cleaned value
cleanedRow(row, sampleIdIndex) ==
  setCell(row, sampleIdIndex, replaceSpecialCharacters(at(row, sampleIdIndex)))

\* the original Sample_IDs pushed to changedSampleIds
changedIds(origRows, sampleIdIndex) ==
  LET changed == SelectSeq(origRows, LAMBDA row :
                   at(row, sampleIdIndex) # replaceSpecialCharacters(at(row, sampleIdIndex)))
  IN  [i \in 1..Len(changed) |-> at(changed[i], sampleIdIndex)]

processRowsAt(origRows, sampleIdIndex, index1Index, index2Index) ==
  [rows |-> [i \in 1..Len(origRows) |->
               IF sampleIdIndex # 0 THEN cleanedRow(origRows[i], sampleIdIndex)
               ELSE origRows[i]],
   changedSampleIds |-> IF sampleIdIndex # 0 THEN changedIds(origRows, sampleIdIndex)
                        ELSE <<>>,
   duplicatedIndexes |->
     IF index1Index # 0 /\ index2Index # 0
     THEN duplicatedIndexesOf(collectIndexes(origRows, sampleIdIndex, index1Index,
                                             index2Index, <<>>, <<>>))
     ELSE <<>>]

processRows(origRows, hdrs) ==
  processRowsAt(origRows,
                indexOf(lowerAll(hdrs), SampleIdName),
                indexOf(lowerAll(hdrs), IndexName),
                indexOf(lowerAll(hdrs), Index2Name))

(***************************************************************************)
(* NextSeq 2000 page: processContent.  Each operator takes the page fields *)
(* as they are when its part of processContent starts (cur: error,         *)
(* headers, rows, originalRows, headerSection) and yields the fields the   *)
(* call leaves; a throw is caught by processContent, which sets error.     *)
(***************************************************************************)
NoError == [msg |-> "null", detail |-> <<>>]

thrown(cur, message, items) == [cur EXCEPT !.error = [msg |-> message, detail |-> items]]

nonBlank(line) == trim(line) # <<>>

\* line.split(',').map((cell) => cell.trim())
cellsOf(line) ==
  LET parts == split(line, ",")
  IN  [i \in 1..Len(parts) |-> trim(parts[i])]

missingColumns_FirstOnly(inputHeadersLower) ==
  LET missing == SelectSeq(requiredColumns,
                           LAMBDA required : indexOf(inputHeadersLower, required) = 0)
  IN  SubSeq(missing, 1, 1)

\* requiredColumns.filter((required) => !inputHeadersLower.includes(required))
missingColumns(inputHeadersLower) ==
  SelectSeq(requiredColumns, LAMBDA required : indexOf(inputHeadersLower, required) = 0)

\* headers = requiredColumns.map(... inputHeaders[inputIndex])
orderedHeaders(inputHeaders) ==
  [k \in 1..Len(requiredColumns) |->
     at(inputHeaders, indexOf(lowerAll(inputHeaders), requiredColumns[k]))]

\* one data line of a bare CSV: the cells placed by headerMap
reorderedCells(cells, inputHeadersLower) ==
  [k \in 1..Len(requiredColumns) |->
     orElse(at(cells, indexOf(inputHeadersLower, requiredColumns[k])), <<>>)]

\* originalRows of a bare CSV: lines.slice(1).filter(...).map(...)
bareRows(dataLines, inputHeadersLower) ==
  [i \in 1..Len(dataLines) |-> reorderedCells(cellsOf(dataLines[i]), inputHeadersLower)]

\* bare CSV from the assignment of headers on
bareLoad(cur, newHeaders, newRows) ==
  IF Len(newRows) = 0
  THEN thrown([cur EXCEPT !.headers = newHeaders, !.originalRows = newRows],
              "No data rows found in the file", <<>>)
  ELSE [cur EXCEPT !.headers = newHeaders, !.originalRows = newRows,
                   !.headerSection = ConfigHeaderSection]

\* bare CSV from the check for required columns on
bareReconcile(lines, cur, inputHeaders, missing) ==
  IF Len(inputHeaders) = 0 THEN thrown(cur, "No headers found in the file", <<>>)
  ELSE IF Len(missing) > 0 THEN thrown(cur, "Missing required columns", missing)
  ELSE bareLoad(cur, orderedHeaders(inputHeaders),
                bareRows(SelectSeq(Tail(lines), nonBlank), lowerAll(inputHeaders)))

\* the branch taken when no line includes '[Header]'
processBareCsv(lines, cur) ==
  bareReconcile(lines, cur, cellsOf(lines[1]), missingColumns(lowerAll(cellsOf(lines[1]))))

\* the loop without its test of dataSection: a line that follows the marker
\* still goes to the header section
RECURSIVE scanLines_HeaderAlways(_, _)
scanLines_HeaderAlways(lines, st) ==
  IF lines = <<>> THEN st
  ELSE IF includes(Head(lines), DataMarker)
  THEN scanLines_HeaderAlways(Tail(lines),
         [st EXCEPT !.foundDataSection = TRUE, !.dataSection = TRUE,
                    !.headerSection = Append(@, Head(lines))])
  ELSE scanLines_HeaderAlways(Tail(lines),
         IF ~st.dataSection THEN [st EXCEPT !.headerSection = Append(@, Head(lines))]
         ELSE IF nonBlank(Head(lines))
         THEN [st EXCEPT !.headerSection = Append(@, Head(lines)),
                         !.dataLines = Append(@, Head(lines))]
         ELSE st)

\* the for-loop over the lines of a sheet with full structure
RECURSIVE scanLines(_, _)
scanLines(lines, st) ==
  IF lines = <<>> THEN st
  ELSE IF includes(Head(lines), DataMarker)
  THEN scanLines(Tail(lines),
         [st EXCEPT !.foundDataSection = TRUE, !.dataSection = TRUE,
                    !.headerSection = Append(@, Head(lines))])
  ELSE scanLines(Tail(lines),
         IF ~st.dataSection THEN [st EXCEPT !.headerSection = Append(@, Head(lines))]
         ELSE IF nonBlank(Head(lines)) THEN [st EXCEPT !.dataLines = Append(@, Head(lines))]
         ELSE st)

\* originalRows of a sheet with full structure:
\* dataLines.slice(1).filter(...).map((line) => line.split(',').map(trim))
fullRows(dataLines) ==
  LET rest == SelectSeq(Tail(dataLines), nonBlank)
  IN  [i \in 1..Len(rest) |-> cellsOf(rest[i])]

\* full structure from the result of processRows on
fullValidate(loaded, processedRows) ==
  IF Len(processedRows.changedSampleIds) > 0
  THEN thrown([loaded EXCEPT !.rows = processedRows.rows],
              "Invalid characters found in Sample_ID", processedRows.changedSampleIds)
  ELSE IF Len(processedRows.duplicatedIndexes) > 0
  THEN thrown([loaded EXCEPT !.rows = processedRows.rows],
              "Duplicate index combinations found", processedRows.duplicatedIndexes)
  ELSE [loaded EXCEPT !.rows = processedRows.rows]

\* full structure from the assignment of headers on
fullLoad(cur, newHeaders, newRows) ==
  fullValidate([cur EXCEPT !.headers = newHeaders, !.originalRows = newRows],
               processRows(newRows, newHeaders))

\* full structure from the check for required columns on
fullReconcile(dataLines, cur, inputHeaders, missing) ==
  IF Len(missing) > 0 THEN thrown(cur, "Missing required columns", missing)
  ELSE fullLoad(cur, orderedHeaders(inputHeaders), fullRows(dataLines))

\* full structure after the for-loop
fullAfterScan(scan, cur) ==
  IF ~scan.foundDataSection
  THEN thrown(cur, "No [BCLConvert_Data] section found in the file", <<>>)
  ELSE IF Len(scan.dataLines) = 0
  THEN thrown(cur, "No data found after [BCLConvert_Data] section", <<>>)
  ELSE fullReconcile(scan.dataLines, cur, cellsOf(scan.dataLines[1]),
                     missingColumns(lowerAll(cellsOf(scan.dataLines[1]))))

\* headerSection is rebuilt line by line during the loop
withHeaderSection(cur, scan) == [cur EXCEPT !.headerSection = scan.headerSection]

\* the branch taken when some line includes '[Header]'
processFullStructure(lines, cur) ==
  LET scan == scanLines(lines, [dataSection |-> FALSE, foundDataSection |-> FALSE,
                                headerSection |-> <<>>, dataLines |-> <<>>])
  IN  fullAfterScan(scan, withHeaderSection(cur, scan))

hasFullStructure(lines) == \E i \in 1..Len(lines) : includes(lines[i], HeaderMarker)

processLines(lines, cur) ==
  IF Len(lines) = 0 THEN thrown(cur, "File appears to be empty", <<>>)
  ELSE IF ~hasFullStructure(lines) THEN processBareCsv(lines, cur)
  ELSE processFullStructure(lines, cur)

\* the page fields processContent leaves, given the fields it starts from
processContent(content, cur) ==
  IF content = <<>> THEN thrown(cur, "Empty content received", <<>>)
  ELSE processLines(SelectSeq(splitLines(content), nonBlank), cur)

(***************************************************************************)
(* NextSeq 2000 page: events.                                              *)
(***************************************************************************)
Init ==
  /\ PageInit
  /\ UtilIdle

\* handleFile up to its first await: the fields are reset and the file is
\* being read (one load at a time: no read is already awaited)
handleFile(uploadedFile) ==
  /\ reads = <<>>
  /\ loads < MaxLoads
  /\ loads' = loads + 1
  /\ file' = uploadedFile
  /\ error' = NoError
  /\ result' = NoResult
  /\ headers' = <<>>
  /\ rows' = <<>>
  /\ originalRows' = <<>>
  /\ reverseComplement2k' = FALSE
  /\ fileContent' = <<>>
  /\ reads' = <<uploadedFile>>
  /\ UNCHANGED <<headerSection, utilVars, otherPageVars>>

\* handleFile after the await: the text is stored and processContent runs
handleFileRead ==
  /\ reads # <<>>
  /\ \E content \in {fileText(Head(reads))} :
       /\ fileContent' = content
       /\ \E new \in {IF content = <<>>
                      THEN thrown([error |-> error, headers |-> headers, rows |-> rows,
                                   originalRows |-> originalRows,
                                   headerSection |-> headerSection],
                                  "No file content received", <<>>)
                      ELSE processContent(content,
                                  [error |-> error, headers |-> headers, rows |-> rows,
                                   originalRows |-> originalRows,
                                   headerSection |-> headerSection])} :
            /\ error' = new.error
            /\ headers' = new.headers
            /\ rows' = new.rows
            /\ originalRows' = new.originalRows
            /\ headerSection' = new.headerSection
  /\ reads' = Tail(reads)
  /\ result' = NoResult
  /\ UNCHANGED <<file, reverseComplement2k, loads, utilVars, otherPageVars>>

\* a click on the reverse-complement checkbox: bind:checked flips the
\* store, then on:change runs handleReverseComplementToggle
handleReverseComplementToggle ==
  /\ error = NoError
  /\ reverseComplement2k' = ~reverseComplement2k
  /\ LET index2ColIndex == indexOf(lowerAll(headers), Index2Name)
         original(i) == at(at(originalRows, i), index2ColIndex)
         throws == \E i \in 1..Len(rows) :
                     \/ i > Len(originalRows)
                     \/ reverseComplement2k' /\ original(i) = Undefined
     IN  IF rows = <<>> \/ index2ColIndex = 0 \/ throws
         THEN rows' = rows
         ELSE rows' = [i \in 1..Len(rows) |->
                         setCell(rows[i], index2ColIndex,
                                 IF reverseComplement2k' /\ original(i) # Undefined
                                 THEN reverseComplement(original(i))
                                 ELSE original(i))]
  /\ UNCHANGED <<file, fileContent, result, error, headers, originalRows,
                 headerSection, reads, loads, utilVars, otherPageVars>>

Next ==
  \/ \E uploadedFile \in Uploads : handleFile(uploadedFile)
  \/ handleFileRead
  \/ handleReverseComplementToggle

Spec == Init /\ [][Next]_vars

(***************************************************************************)
(* Claims about the NextSeq 2000 page (checked under Spec).  The uploaded  *)
(* sheet is read off the structured upload held in file: its header row is *)
(* the first line after the prelude and its data lines are the lines after *)
(* the header row, each given by its raw cells.                            *)
(***************************************************************************)
\* a handleFile call has completed and left no error
LoadedWithoutError == loads > 0 /\ reads = <<>> /\ error = NoError

\* a handleFile call has completed (with or without error)
LoadCompleted == loads > 0 /\ reads = <<>>

\* some line of the upload contains s
SheetHasLineWith(u, s) ==
  \E i \in 1..Len(u.pre \o u.body) : includes(join((u.pre \o u.body)[i], Comma), s)

SheetIsBareCsv(u) == ~SheetHasLineWith(u, HeaderMarker)

\* the parser gets as far as a header row: a bare CSV with a first line, or
\* a full structure whose prelude holds the data marker and that has a line
\* after it
SheetHasHeaderRow(u) ==
  /\ u.body # <<>>
  /\ SheetIsBareCsv(u) \/ \E i \in 1..Len(u.pre) : includes(join(u.pre[i], Comma), DataMarker)

SheetHeaderRow(u) == u.body[1]
SheetDataLines(u) == Tail(u.body)

\* the first input column whose header matches the required column, 0 if none
SheetColumnOf(u, required) ==
  IF \E j \in 1..Len(SheetHeaderRow(u)) : toLowerCase(trim(SheetHeaderRow(u)[j])) = required
  THEN CHOOSE j \in 1..Len(SheetHeaderRow(u)) :
         /\ toLowerCase(trim(SheetHeaderRow(u)[j])) = required
         /\ \A h \in 1..(j - 1) : toLowerCase(trim(SheetHeaderRow(u)[h])) # required
  ELSE 0

\* the trimmed cell a data line holds under the required column ('' if the
\* line is too short)
SheetCell(u, line, required) ==
  IF SheetColumnOf(u, required) \in 1..Len(line)
  THEN trim(line[SheetColumnOf(u, required)])
  ELSE <<>>

\* C1: in both modes every data row is re-projected onto the required column
\* order: cell k of row i is the trimmed input cell under the column that
\* matches required column k, and cells of other columns are dropped.
C1_RowsReprojected ==
  LoadedWithoutError =>
    /\ Len(originalRows) = Len(SheetDataLines(file))
    /\ \A i \in 1..Len(originalRows) :
         /\ Len(originalRows[i]) = Len(requiredColumns)
         /\ \A k \in 1..Len(requiredColumns) :
              at(originalRows[i], k) = SheetCell(file, SheetDataLines(file)[i], requiredColumns[k])

\* C2: a bare-CSV load that ends without error leaves the four required
\* columns as headers and one row per data line in rows, in source order;
\* the table is not empty when the sheet has data lines.
C2_BareCsvTable ==
  (LoadedWithoutError /\ SheetIsBareCsv(file)) =>
    /\ lowerAll(headers) = requiredColumns
    /\ Len(rows) = Len(SheetDataLines(file))
    /\ SheetDataLines(file) # <<>> => rows # <<>>
    /\ \A i \in 1..Len(rows) : \A k \in 2..Len(requiredColumns) :
         at(rows[i], k) = SheetCell(file, SheetDataLines(file)[i], requiredColumns[k])

\* a full-structure load has handed its rows to processRows under headers in
\* the required order
CanonicalRowsHeld ==
  /\ LoadCompleted
  /\ ~SheetIsBareCsv(file)
  /\ Len(headers) = Len(requiredColumns)

\* the composite key of a canonical row: index2, '-', index
RowIndexKey(row) == orElse(at(row, 2), <<>>) \o <<"-">> \o orElse(at(row, 3), <<>>)

\* the positions of the rows with the given key, in row order
RowsWithKey(rs, key) ==
  SelectSeq([i \in 1..Len(rs) |-> i], LAMBDA i : RowIndexKey(rs[i]) = key)

\* the map processRows reports for the rows held is the one the claim gives
DuplicateMapAsClaimed ==
  LET dup == processRows(originalRows, headers).duplicatedIndexes
  IN  /\ \A i \in 1..Len(originalRows) :
           (\E d \in 1..Len(dup) : dup[d].key = RowIndexKey(originalRows[i]))
             <=> Len(RowsWithKey(originalRows, RowIndexKey(originalRows[i]))) >= 2
      /\ \A d \in 1..Len(dup) :
           /\ Len(RowsWithKey(originalRows, dup[d].key)) >= 2
           /\ dup[d].samples =
                [n \in 1..Len(RowsWithKey(originalRows, dup[d].key)) |->
                   at(originalRows[RowsWithKey(originalRows, dup[d].key)[n]], 1)]

\* C3: the duplicate-index map of processRows holds the key index2-index
\* exactly when at least two rows produced it, and maps it to the sample
\* identifiers of all rows with that key in row order.
C3_DuplicateMap == CanonicalRowsHeld => DuplicateMapAsClaimed

\* the same, for sheets all of whose rows have a sample identifier
C3_DuplicateMapOfNamedRows ==
  (CanonicalRowsHeld /\ \A i \in 1..Len(originalRows) : at(originalRows[i], 1) # <<>>)
    => DuplicateMapAsClaimed

C3_NamedDuplicatesReached ==
  /\ CanonicalRowsHeld
  /\ \A i \in 1..Len(originalRows) : at(originalRows[i], 1) # <<>>
  /\ Len(processRows(originalRows, headers).duplicatedIndexes) > 0

\* a row that has a sample identifier and a primary index
RowIsIndexed(row) == at(row, 1) \notin {<<>>, Undefined} /\ at(row, 3) \notin {<<>>, Undefined}

\* C4: a row whose sample identifier or primary index is empty is skipped by
\* duplicate-index detection: the map is the one of the remaining rows.
C4_EmptyRowsSkipped ==
  CanonicalRowsHeld =>
    processRows(originalRows, headers).duplicatedIndexes
      = processRows(SelectSeq(originalRows, RowIsIndexed), headers).duplicatedIndexes

\* the required columns no header cell of the sheet matches
SheetMissingColumns(u) ==
  {k \in 1..Len(requiredColumns) : SheetColumnOf(u, requiredColumns[k]) = 0}

\* C5: a header row lacking required columns gives one error listing every
\* missing required column in required-column order; a header row holding
\* them all, in any order and letter case, gives no missing-column error.
C5_MissingColumnsBatched ==
  (LoadCompleted /\ SheetHasHeaderRow(file)) =>
    IF SheetMissingColumns(file) = {}
    THEN error.msg # "Missing required columns"
    ELSE /\ error.msg = "Missing required columns"
         /\ Len(error.detail) = Cardinality(SheetMissingColumns(file))
         /\ \A k \in SheetMissingColumns(file) :
              \E n \in 1..Len(error.detail) : error.detail[n] = requiredColumns[k]
         /\ \A m, n \in 1..Len(error.detail) :
              m < n => indexOf(requiredColumns, error.detail[m])
                         < indexOf(requiredColumns, error.detail[n])

C5_Witness ==
  /\ LoadCompleted
  /\ ~SheetIsBareCsv(file)
  /\ SheetHasHeaderRow(file)
  /\ Cardinality(SheetMissingColumns(file)) = 2
  /\ Len(error.detail) = 2

\* C6: after a load, headers has as many entries as there are required
\* columns and every row of rows and originalRows has that length, whatever
\* the cell counts of the data lines and the parsing mode.
C6_RowWidth ==
  LoadedWithoutError =>
    /\ Len(headers) = Len(requiredColumns)
    /\ \A i \in 1..Len(rows) : Len(rows[i]) = Len(headers)
    /\ \A i \in 1..Len(originalRows) : Len(originalRows[i]) = Len(headers)

(***************************************************************************)
(* Claims about the string utilities (checked under SpecUtil).             *)
(***************************************************************************)
CallRC == [fn |-> "reverseComplement", replaceChar |-> "", collapseRepeat |-> FALSE]
CallRSC(r, b) == [fn |-> "removeSpecialChars", replaceChar |-> r, collapseRepeat |-> b]
CallReplace ==
  [fn |-> "replaceSpecialCharacters", replaceChar |-> "", collapseRepeat |-> FALSE]

\* a character outside [A-Za-z0-9-_]
IsOutsideAllowed(c) ==
  c \notin {UpperChars[i] : i \in 1..26} \cup {LowerChars[i] : i \in 1..26}
              \cup DigitChars \cup {"-", "_"}

\* C7: reverseComplement applied twice to a string of bases mixed with
\* passthrough characters gives the string back.
C7_Involution ==
  applied = <<CallRC, CallRC>> => value = input

C7_Witness ==
  /\ applied = <<CallRC, CallRC>>
  /\ \E i \in 1..Len(input) : input[i] \in {"A", "C", "T"}
  /\ \E i \in 1..Len(input) : input[i] \notin {"A", "C", "G", "T"}
  /\ prev # input

\* C8: removeSpecialChars with the default arguments ('-', collapse) is
\* idempotent: a second call returns its argument unchanged.
C8_Idempotent ==
  applied = <<CallRSC("-", TRUE), CallRSC("-", TRUE)>> => value = prev

C8_Witness ==
  /\ applied = <<CallRSC("-", TRUE), CallRSC("-", TRUE)>>
  /\ prev # input
  /\ \E i \in 1..Len(input) : IsOutsideAllowed(input[i])
  /\ \E i \in 1..Len(input) : input[i] = "-"

\* every maximal run of special characters becomes one replaceChar
RECURSIVE C9_RunsToOne(_, _)
C9_RunsToOne(s, r) ==
  IF s = <<>> THEN <<>>
  ELSE IF ~IsOutsideAllowed(Head(s)) THEN <<Head(s)>> \o C9_RunsToOne(Tail(s), r)
  ELSE IF Len(s) >= 2 /\ IsOutsideAllowed(s[2]) THEN C9_RunsToOne(Tail(s), r)
  ELSE <<r>> \o C9_RunsToOne(Tail(s), r)

\* consecutive copies of r merged into one
RECURSIVE C9_Merged(_, _)
C9_Merged(s, r) ==
  IF Len(s) < 2 THEN s
  ELSE IF s[1] = r /\ s[2] = r THEN C9_Merged(Tail(s), r)
  ELSE <<Head(s)>> \o C9_Merged(Tail(s), r)

\* replacement characters that a regular expression reads as themselves
C9_LiteralReplaceChars == {"-", "_"}

\* C9 as stated: one call replaces every maximal run of special characters
\* with exactly one replaceChar whether or not collapseRepeat is set, and
\* collapseRepeat additionally merges consecutive replacement characters.
C9_AsStated ==
  \A r \in C9_LiteralReplaceChars, b \in BOOLEAN :
    applied = <<CallRSC(r, b)>> =>
      value = IF b THEN C9_Merged(C9_RunsToOne(input, r), r)
              ELSE C9_RunsToOne(input, r)

\* C9 amended: without collapseRepeat every special character is replaced
\* by one replaceChar of its own (n characters give n copies) and all other
\* characters stay in place; with collapseRepeat and a replaceChar that is a
\* literal in a regular expression, every maximal run of special characters
\* and replacement characters ends up as exactly one replaceChar; with
\* collapseRepeat and the replaceChar '.', which a regular expression reads
\* as "any character", a non-empty text without line breaks becomes ".".
C9_PerCharacter ==
  /\ \A r \in ReplaceChars :
       applied = <<CallRSC(r, FALSE)>> =>
         /\ Len(value) = Len(input)
         /\ \A i \in 1..Len(input) :
              value[i] = IF IsOutsideAllowed(input[i]) THEN r ELSE input[i]
  /\ \A r \in C9_LiteralReplaceChars :
       applied = <<CallRSC(r, TRUE)>> =>
         value = C9_Merged(C9_RunsToOne(input, r), r)
  /\ applied = <<CallRSC(".", TRUE)>> =>
       value = IF input = <<>> THEN <<>> ELSE <<".">>

C9_Witness ==
  /\ \E r \in C9_LiteralReplaceChars : applied = <<CallRSC(r, FALSE)>>
  /\ \E i \in 1..(Len(input) - 1) : IsOutsideAllowed(input[i]) /\ IsOutsideAllowed(input[i + 1])
  /\ \E i \in 1..(Len(value) - 1) : value[i] = value[i + 1]

C10_AdjacentUnderscores(s) == \E i \in 1..(Len(s) - 1) : s[i] = "_" /\ s[i + 1] = "_"

\* C10: the '_' pass of replaceSpecialCharacters is observable: some input
\* with adjacent '_' gives a result that differs from the result of the '-'
\* replacement and the '-' collapse alone.
C10_UnderscorePassObservable ==
  \E s \in InputStrings \cup {input} :
    /\ C10_AdjacentUnderscores(s)
    /\ replaceSpecialCharacters(s) # hyphenPasses(s)

(***************************************************************************)
(* utils: renameDuplicates, called on bounded arrays of strings.  The     *)
(* array is held in input and the returned array in value.                *)
(***************************************************************************)
MaxValues == 3   \* longest array given to renameDuplicates

\* `${count}`: the decimal digits of a natural number
RECURSIVE numberToString(_)
numberToString(n) ==
  IF n < 10 THEN <<SubSeq(<<"0","1","2","3","4","5","6","7","8","9">>, n + 1, n + 1)[1]>>
  ELSE numberToString(n \div 10) \o numberToString(n % 10)

\* counts.get(value) || 0 when position i is mapped: every earlier position
\* with the same value has added one to the count
countBefore(values, i) == Cardinality({j \in 1..(i - 1) : values[j] = values[i]})

renameDuplicates_CountFromTwo(values) ==
  [i \in 1..Len(values) |->
     IF countBefore(values, i) = 0 THEN values[i]
     ELSE values[i] \o <<"-">> \o numberToString(countBefore(values, i) + 1)]

renameDuplicates(values) ==
  [i \in 1..Len(values) |->
     IF countBefore(values, i) = 0 THEN values[i]
     ELSE values[i] \o <<"-">> \o numberToString(countBefore(values, i))]

\* the values the arrays are made of: two names, the renamed form of one of
\* them, and the empty string
ValuePool == {<<"A">>, <<"C">>, <<"A","-","1">>, <<>>}

RECURSIVE ArraysOfLen(_)
ArraysOfLen(n) ==
  IF n = 0 THEN {<<>>}
  ELSE {Append(a, v) : a \in ArraysOfLen(n - 1), v \in ValuePool}

InputArrays == UNION {ArraysOfLen(n) : n \in 0..MaxValues}

CallRename == [fn |-> "renameDuplicates", replaceChar |-> "", collapseRepeat |-> FALSE]

RenameInit ==
  /\ input \in InputArrays
  /\ prev = input
  /\ value = input
  /\ applied = <<>>
  /\ PageInit

CallRenameDuplicates ==
  /\ applied = <<>>
  /\ prev' = value
  /\ value' = renameDuplicates(value)
  /\ applied' = <<CallRename>>
  /\ UNCHANGED <<input, pageVars>>

SpecRename == RenameInit /\ [][CallRenameDuplicates]_vars

(***************************************************************************)
(* Claims about renameDuplicates (checked under SpecRename).               *)
(***************************************************************************)
\* the number of positions before i that hold the value of position i
OccurrencesBefore(values, i) ==
  Len(SelectSeq(SubSeq(values, 1, i - 1), LAMBDA v : v = values[i]))

\* the digit appended to the second, third, ... occurrence
OccurrenceDigit == <<"1", "2", "3", "4", "5", "6", "7", "8", "9">>

\* C11: renameDuplicates returns an array of the same length in which a value
\* that did not occur before stays as it is and any other value gets '-'
\* and the number of its earlier occurrences appended.
C11_RenameDuplicates ==
  applied = <<CallRename>> =>
    /\ Len(value) = Len(input)
    /\ \A i \in 1..Len(input) :
         value[i] = IF OccurrencesBefore(input, i) = 0 THEN input[i]
                    ELSE input[i] \o <<"-", OccurrenceDigit[OccurrencesBefore(input, i)]>>

C11_Witness ==
  /\ applied = <<CallRename>>
  /\ \E i \in 1..Len(input) : OccurrencesBefore(input, i) = 1
  /\ \E i \in 2..Len(input) : OccurrencesBefore(input, i) = 0
  /\ value # input

(***************************************************************************)
(* NextSeq 500 page: parseIlluminaSampleSheet                              *)
(***************************************************************************)
IlluminaDataMarker == <<"[","D","a","t","a","]">>

\* content.replace(/\r\n|\r|\n/g, '\n'): "\r\n" and a lone "\r" become "\n"
normalizeLineEndings(content) ==
  LET kept == SelectSeq([i \in 1..Len(content) |-> i],
                        LAMBDA i : ~(/\ content[i] = "\r"
                                     /\ i < Len(content)
                                     /\ content[i + 1] = "\n"))
  IN  [k \in 1..Len(kept) |-> IF content[kept[k]] = "\r" THEN "\n" ELSE content[kept[k]]]

\* line.replace(/,+$/, ''): the commas at the end of the line are removed
stripTrailingCommas(line) ==
  LET kept == SelectSeq([i \in 1..Len(line) |-> i], LAMBDA i : line[i] # ",")
  IN  IF kept = <<>> THEN <<>> ELSE SubSeq(line, 1, kept[Len(kept)])

\* cleanLine of one line
cleanLineOf(line) == stripTrailingCommas(trim(line))

\* the loop with the marker line pushed to the header lines
RECURSIVE illuminaScan_KeepMarker(_, _)
illuminaScan_KeepMarker(lines, st) ==
  IF lines = <<>> THEN st
  ELSE IF cleanLineOf(Head(lines)) = IlluminaDataMarker
  THEN illuminaScan_KeepMarker(Tail(lines),
         [st EXCEPT !.dataSection = TRUE, !.dataLines = <<>>,
                    !.headerLines = Append(@, Head(lines))])
  ELSE illuminaScan_KeepMarker(Tail(lines),
         IF ~st.dataSection THEN [st EXCEPT !.headerLines = Append(@, Head(lines))]
         ELSE IF Len(cleanLineOf(Head(lines))) > 0
         THEN [st EXCEPT !.dataLines = Append(@, cleanLineOf(Head(lines)))]
         ELSE st)

\* the for-loop of parseIlluminaSampleSheet over the lines
RECURSIVE illuminaScan(_, _)
illuminaScan(lines, st) ==
  IF lines = <<>> THEN st
  ELSE IF cleanLineOf(Head(lines)) = IlluminaDataMarker
  THEN illuminaScan(Tail(lines), [st EXCEPT !.dataSection = TRUE, !.dataLines = <<>>])
  ELSE illuminaScan(Tail(lines),
         IF ~st.dataSection THEN [st EXCEPT !.headerLines = Append(@, Head(lines))]
         ELSE IF Len(cleanLineOf(Head(lines))) > 0
         THEN [st EXCEPT !.dataLines = Append(@, cleanLineOf(Head(lines)))]
         ELSE st)

\* what parseIlluminaSampleSheet throws or returns after the loop
illuminaAfterScan(st) ==
  IF ~st.dataSection
  THEN [thrown |-> "Invalid sample sheet format: [Data] section not found",
        headerSection |-> <<>>, dataLines |-> <<>>]
  ELSE IF Len(st.dataLines) < 2
  THEN [thrown |-> "Invalid sample sheet format: No data found after [Data] section",
        headerSection |-> <<>>, dataLines |-> <<>>]
  ELSE [thrown |-> "null", headerSection |-> st.headerLines, dataLines |-> st.dataLines]

parseIlluminaSampleSheet(content) ==
  illuminaAfterScan(
    illuminaScan(split(normalizeLineEndings(content), "\n"),
                 [dataSection |-> FALSE, headerLines |-> <<>>, dataLines |-> <<>>]))


(***************************************************************************)
(* The for-loop of the NextSeq 2000 full-structure branch, one line at a   *)
(* time: input holds the lines given to the loop, applied one entry per    *)
(* line already visited, value the loop's variables and how the scan       *)
(* ended.                                                                  *)
(***************************************************************************)
MaxScan == 3   \* most lines in one scanned sheet

ScanLinePool ==
  {<<"[","H","e","a","d","e","r","]">>,
   <<"[","B","C","L","C","o","n","v","e","r","t","_","D","a","t","a","]",",",",",",">>,
   <<"S","a","m","p","l","e","_","I","D",",","I","n","d","e","x">>,
   <<"S","1",",","T","T">>}

RECURSIVE LinesOfLen(_)
LinesOfLen(n) ==
  IF n = 0 THEN {<<>>}
  ELSE {Append(ls, l) : ls \in LinesOfLen(n - 1), l \in ScanLinePool}

\* the loop runs on sheets that have a line with '[Header]'
ScanInputs == {ls \in UNION {LinesOfLen(n) : n \in 1..MaxScan} : hasFullStructure(ls)}

CallScanLine == [fn |-> "scanLine", replaceChar |-> "", collapseRepeat |-> FALSE]

NoPage ==
  [error |-> NoError, headers |-> <<>>, rows |-> <<>>, originalRows |-> <<>>,
   headerSection |-> <<>>]

\* how the branch goes on after the loop: one of the two throws, or on
scanOutcome(scan) ==
  IF fullAfterScan(scan, NoPage).error.msg
       \in {"No [BCLConvert_Data] section found in the file",
            "No data found after [BCLConvert_Data] section"}
  THEN fullAfterScan(scan, NoPage).error.msg
  ELSE "Done"

ScanInit ==
  /\ PageInit
  /\ input \in ScanInputs
  /\ prev = <<>>
  /\ value = [scan |-> [dataSection |-> FALSE, foundDataSection |-> FALSE,
                        headerSection |-> <<>>, dataLines |-> <<>>],
              outcome |-> "scanning"]
  /\ applied = <<>>

\* one iteration of the loop
ScanLine ==
  /\ value.outcome = "scanning"
  /\ Len(applied) < Len(input)
  /\ prev' = input[Len(applied) + 1]
  /\ value' = [value EXCEPT !.scan = scanLines(<<input[Len(applied) + 1]>>, @)]
  /\ applied' = Append(applied, CallScanLine)
  /\ UNCHANGED <<pageVars, input>>

\* the end of the loop
ScanEnd ==
  /\ value.outcome = "scanning"
  /\ Len(applied) = Len(input)
  /\ value' = [value EXCEPT !.outcome = scanOutcome(value.scan)]
  /\ UNCHANGED <<pageVars, input, prev, applied>>

ScanNext ==
  \/ ScanLine
  \/ ScanEnd

SpecScan == ScanInit /\ [][ScanNext]_vars

(***************************************************************************)
(* Claims about the scan (checked under SpecScan).                         *)
(***************************************************************************)
ScanningHeader == value.outcome = "scanning" /\ ~value.scan.dataSection
ScanningData == value.outcome = "scanning" /\ value.scan.dataSection
ScanAtEnd == Len(applied) = Len(input)
ScannedLine == input[Len(applied) + 1]
ScannedLineIsMarker == ~ScanAtEnd /\ includes(ScannedLine, DataMarker)

\* C13: the scan leaves Scanning-Header only on a marker line, never goes
\* from Scanning-Data back to Scanning-Header, adds a non-marker line to the
\* header section only in Scanning-Header and to the data lines only in
\* Scanning-Data, and ends in NoDataSection only at the end of input in
\* Scanning-Header, in EmptyDataSection only at the end of input in
\* Scanning-Data.
C13_ScanStateMachine ==
  [][/\ ScanningHeader /\ ~ScanningHeader' /\ value'.outcome = "scanning"
          => ScannedLineIsMarker /\ ScanningData'
     /\ ScanningData => ~ScanningHeader'
     /\ ~ScanAtEnd /\ ~ScannedLineIsMarker
          /\ value'.scan.headerSection # value.scan.headerSection
          => /\ ScanningHeader
             /\ value'.scan.headerSection = Append(value.scan.headerSection, ScannedLine)
     /\ value'.scan.dataLines # value.scan.dataLines
          => /\ ScanningData
             /\ ~ScannedLineIsMarker
             /\ value'.scan.dataLines = Append(value.scan.dataLines, ScannedLine)
     /\ value'.outcome = "No [BCLConvert_Data] section found in the file"
          /\ value.outcome = "scanning"
          => ScanningHeader /\ ScanAtEnd
     /\ value'.outcome = "No data found after [BCLConvert_Data] section"
          /\ value.outcome = "scanning"
          => ScanningData /\ ScanAtEnd
     /\ value'.outcome = "Done" /\ value.outcome = "scanning"
          => ScanningData /\ ScanAtEnd
    ]_vars

\* a scan that went through both phases and ended with lines in both sections
C13_Witness ==
  /\ value.outcome = "Done"
  /\ Len(applied) = MaxScan
  /\ Len(value.scan.headerSection) = 2
  /\ Len(value.scan.dataLines) = 1


(***************************************************************************)
(* NextSeq 500 sheets: the uploads given to the page and to the parser.    *)
(***************************************************************************)
CR == <<"\r">>

Hdr500 == <<<<"S","a","m","p","l","e","_","I","D">>, <<"D","e","s","c","r","i","p","t","i","o","n">>, <<"I","7","_","I","n","d","e","x","_","I","D">>, <<"i","n","d","e","x">>, <<"I","5","_","I","n","d","e","x","_","I","D">>, <<"i","n","d","e","x","2">>, <<"S","a","m","p","l","e","_","P","r","o","j","e","c","t">>>>

Pre500Full == <<<<<<"[","H","e","a","d","e","r","]">>>>, <<<<"I","E","M","F","i","l","e","V","e","r","s","i","o","n">>, <<"4">>>>, <<<<>>>>, <<<<"[","D","a","t","a","]">>, <<>>, <<>>, <<>>>>>>
Pre500BareMarker == <<<<<<"[","H","e","a","d","e","r","]">>>>, <<<<"I","E","M","F","i","l","e","V","e","r","s","i","o","n">>, <<"4">>>>, <<<<"[","D","a","t","a","]">>>>>>
Pre500NoMarker == <<<<<<"[","H","e","a","d","e","r","]">>>>, <<<<"I","E","M","F","i","l","e","V","e","r","s","i","o","n">>, <<"4">>>>>>

RowPool500 ==
  {<<<<"S","1">>, <<>>, <<"N","7","0","1">>, <<"T","A","A","G","G","C","G","A">>, <<"S","5","2","2">>, <<"T","T","A","T","G","C","G","A">>, <<"P","1">>>>,
   <<<<" ","S"," ","2">>, <<"d">>, <<"A","-","N","7","0","2">>, <<"G","G">>, <<"S","5","0","3">>, <<"T","T">>, <<"P",".","1">>, <<>>>>,
   <<<<"S","3">>, <<>>, <<"N","7","0","1">>>>,
   <<<<>>, <<>>, <<>>, <<>>, <<>>, <<>>, <<>>>>}

Layouts500 ==
  {[pre |-> p, hdr |-> h, eol |-> e, trailing |-> t] :
     p \in {Pre500Full, Pre500BareMarker, Pre500NoMarker},
     h \in {<<Hdr500>>, <<>>}, e \in {LF, CRLF, CR}, t \in BOOLEAN}

RECURSIVE RowSeqs500(_)
RowSeqs500(n) ==
  IF n = 0 THEN {<<>>}
  ELSE RowSeqs500(n - 1) \cup {Append(rs, r) : rs \in RowSeqs500(n - 1), r \in RowPool500}

Uploads500 == {upload(l, rs) : l \in Layouts500, rs \in RowSeqs500(MaxRows)}


(***************************************************************************)
(* validateSampleSheet2k                                                   *)
(***************************************************************************)
\* one line of the loop of validateSampleSheet2k
validate2kLine(line, st) ==
  IF line = DataMarker THEN [st EXCEPT !.dataSection = TRUE]
  ELSE IF ~st.dataSection \/ line = <<>> THEN st
  ELSE IF Len(st.headers) = 0 THEN [st EXCEPT !.headers = cellsOf(line)]
  ELSE IF \/ orElse(at(cellsOf(line), indexOf(lowerAll(st.headers), SampleIdName)), <<>>) = <<>>
          \/ orElse(at(cellsOf(line), indexOf(lowerAll(st.headers), IndexName)), <<>>) = <<>>
  THEN st
  ELSE LET sampleId == at(cellsOf(line), indexOf(lowerAll(st.headers), SampleIdName))
           indexKey == at(cellsOf(line), indexOf(lowerAll(st.headers), IndexName))
                         \o <<"-">>
                         \o orElse(at(cellsOf(line), indexOf(lowerAll(st.headers), Index2Name)), <<>>)
           seen == indexOf(keysOf(st.indexCombinations), indexKey)
       IN  IF seen # 0
           THEN [st EXCEPT !.indexCombinations[seen].samples = Append(@, sampleId),
                           !.duplicated = IF indexOf(@, indexKey) # 0 THEN @
                                          ELSE Append(@, indexKey)]
           ELSE [st EXCEPT !.indexCombinations =
                             Append(@, [key |-> indexKey, samples |-> <<sampleId>>])]

RECURSIVE validate2kScan(_, _)
validate2kScan(lines, st) ==
  IF lines = <<>> THEN st
  ELSE validate2kScan(Tail(lines), validate2kLine(trim(Head(lines)), st))

validateSampleSheet2k(content) ==
  LET scan == validate2kScan(splitLines(content),
                             [dataSection |-> FALSE, headers |-> <<>>,
                              indexCombinations |-> <<>>, duplicated |-> <<>>])
  IN  [duplicatedIndexes |-> duplicatedIndexesOf(scan),
       isValid |-> Len(scan.duplicated) = 0]

(***************************************************************************)
(* The parse step of the two Illumina pages as functions of the text of a  *)
(* sheet: parseIlluminaSampleSheet (NextSeq 500) and the full-structure    *)
(* scan of processContent (NextSeq 2000).                                  *)
(***************************************************************************)
\* the NextSeq 2000 sheets with a '[Header]' line, in the three line endings
Uploads2kFull ==
  {[u EXCEPT !.eol = e] : u \in {v \in Uploads : v.pre # <<>>}, e \in {LF, CRLF, CR}}

\* processContent of the NextSeq 2000 page from the split into lines to the
\* throws after the loop
scanSheet(content) ==
  LET scan == scanLines(SelectSeq(splitLines(content), nonBlank),
                        [dataSection |-> FALSE, foundDataSection |-> FALSE,
                         headerSection |-> <<>>, dataLines |-> <<>>])
  IN  [thrown |-> IF scanOutcome(scan) = "Done" THEN "null" ELSE scanOutcome(scan),
       headerSection |-> scan.headerSection,
       dataLines |-> scan.dataLines]

\* a sheet of each kind with a second marker line among its data lines
TwoMarkers2k ==
  [pre |-> PreFull,
   body |-> <<HdrCanonical, <<DataMarker>>, <<<<"S","1">>, <<"T","T">>, <<"A","A">>, <<"P","1">>>>>>,
   eol |-> LF, trailing |-> FALSE]
TwoMarkers500 ==
  [pre |-> Pre500Full,
   body |-> <<<<<<"x">>>>, <<IlluminaDataMarker>>, Hdr500, <<<<"S","1">>, <<>>, <<"N","7","0","1">>, <<"T","A","A","G","G","C","G","A">>, <<"S","5","2","2">>, <<"T","T","A","T","G","C","G","A">>, <<"P","1">>>>>>,
   eol |-> LF, trailing |-> FALSE]

\* sheets whose marker line has no trailing commas
Pre2kBareMarker == <<<<<<"[","H","e","a","d","e","r","]">>>>, <<<<"[","B","C","L","C","o","n","v","e","r","t","_","D","a","t","a","]">>>>>>
BareMarker2k ==
  {upload([pre |-> Pre2kBareMarker, hdr |-> <<HdrCanonical>>, eol |-> LF,
           trailing |-> FALSE], rs) : rs \in RowSeqs(MaxRows)}

Sheets2k == Uploads2kFull \cup {TwoMarkers2k} \cup BareMarker2k
Sheets500 == Uploads500 \cup {TwoMarkers500}

CallParse == [fn |-> "parseIlluminaSampleSheet", replaceChar |-> "", collapseRepeat |-> FALSE]
CallScan == [fn |-> "processContent", replaceChar |-> "", collapseRepeat |-> FALSE]
CallValidate2k == [fn |-> "validateSampleSheet2k", replaceChar |-> "", collapseRepeat |-> FALSE]

ParseInit ==
  /\ PageInit
  /\ input \in Sheets500 \cup Sheets2k
  /\ prev = input
  /\ value = input
  /\ applied = <<>>

CallParseIlluminaSampleSheet ==
  /\ applied = <<>>
  /\ input \in Sheets500
  /\ prev' = value
  /\ value' = parseIlluminaSampleSheet(fileText(input))
  /\ applied' = <<CallParse>>
  /\ UNCHANGED <<pageVars, input>>

CallScanSheet ==
  /\ applied = <<>>
  /\ input \in Sheets2k
  /\ prev' = value
  /\ value' = scanSheet(fileText(input))
  /\ applied' = <<CallScan>>
  /\ UNCHANGED <<pageVars, input>>

\* validateSampleSheet2k on a serialized sheet (getFullContent joins the
\* lines with '\n')
CallValidateSampleSheet2k ==
  /\ applied = <<>>
  /\ input \in Sheets2k
  /\ input.eol = LF
  /\ prev' = value
  /\ value' = validateSampleSheet2k(fileText(input))
  /\ applied' = <<CallValidate2k>>
  /\ UNCHANGED <<pageVars, input>>

ParseNext ==
  \/ CallParseIlluminaSampleSheet
  \/ CallScanSheet
  \/ CallValidateSampleSheet2k

SpecParse == ParseInit /\ [][ParseNext]_vars

(***************************************************************************)
(* Claims about the parse step (checked under SpecParse).  The sheet is    *)
(* read off the structured upload held in input: a marker line is a line   *)
(* whose first cell is the marker and whose other cells are empty, an      *)
(* empty line is a line whose cells hold nothing but blanks.               *)
(***************************************************************************)
SheetLines(u) == u.pre \o u.body

CellIsBlank(c) == \A i \in 1..Len(c) : c[i] = " "

LineIsEmpty(l) == \A k \in 1..Len(l) : CellIsBlank(l[k])

LineIsMarker(l, marker) ==
  /\ Len(l) > 0
  /\ l[1] = marker
  /\ \A k \in 2..Len(l) : l[k] = <<>>

MarkerLinesOf(u, marker) ==
  {i \in 1..Len(SheetLines(u)) : LineIsMarker(SheetLines(u)[i], marker)}

\* the non-empty lines after the marker line
LinesAfterMarker(u, marker) ==
  {i \in 1..Len(SheetLines(u)) :
     /\ \E m \in MarkerLinesOf(u, marker) : m < i
     /\ ~LineIsEmpty(SheetLines(u)[i])}

\* the outcome the claim gives for a sheet, its marker and the two messages
OutcomeAsClaimed(u, marker, noSection, emptySection) ==
  /\ value.thrown = noSection <=> MarkerLinesOf(u, marker) = {}
  /\ value.thrown = emptySection
       <=> MarkerLinesOf(u, marker) # {} /\ LinesAfterMarker(u, marker) = {}
  /\ value.thrown \in {noSection, emptySection, "null"}
  /\ value.thrown = "null"
       => Len(value.dataLines) = Cardinality(LinesAfterMarker(u, marker))

\* C12: each parser raises the no-data-section error exactly when the sheet
\* has no marker line, raises the empty-data-section error exactly when the
\* sheet has a marker line and no non-empty line after it, and in every
\* other case succeeds and returns the lines after the marker as the data
\* section.
C12_ParseOutcome ==
  /\ applied = <<CallParse>>
       => OutcomeAsClaimed(input, IlluminaDataMarker,
            "Invalid sample sheet format: [Data] section not found",
            "Invalid sample sheet format: No data found after [Data] section")
  /\ applied = <<CallScan>>
       => OutcomeAsClaimed(input, DataMarker,
            "No [BCLConvert_Data] section found in the file",
            "No data found after [BCLConvert_Data] section")

\* the text of line i of a sheet
SheetLineText(u, i) == join(SheetLines(u)[i], Comma)

\* the lines of a sheet whose text contains the marker
LinesWithMarker(u, marker) ==
  {i \in 1..Len(SheetLines(u)) : includes(SheetLineText(u, i), marker)}

FirstOf(S) == CHOOSE i \in S : \A j \in S : i <= j

\* the texts of the lines of a sheet picked by keep, in input order
SheetTextsWhere(u, keep) ==
  LET picked == SelectSeq([i \in 1..Len(SheetLines(u)) |-> i], LAMBDA i : i \in keep)
  IN  [k \in 1..Len(picked) |-> SheetLineText(u, picked[k])]

\* the lines up to and including the marker line
ThroughMarker(u, marker) ==
  SheetTextsWhere(u, {i \in 1..Len(SheetLines(u)) :
                        i <= FirstOf(MarkerLinesOf(u, marker))})

\* C14 as stated: the header section a parser produces consists of the
\* input lines up to and including the marker line, in input order, the
\* marker line last.
C14_MarkerKept ==
  /\ applied = <<CallParse>> /\ value.thrown = "null"
       => value.headerSection = ThroughMarker(input, IlluminaDataMarker)
  /\ applied = <<CallScan>> /\ value.thrown = "null"
       => value.headerSection = ThroughMarker(input, DataMarker)

\* C14 as amended: the header section of parseIlluminaSampleSheet consists
\* of the input lines before the first marker line, in input order, without
\* the marker line; the header section of the NextSeq 2000 scan consists of
\* the non-blank input lines before the first line that contains the marker
\* followed by every line that contains the marker, in input order.
C14_HeaderSection ==
  /\ applied = <<CallParse>> /\ value.thrown = "null"
       => value.headerSection
            = SheetTextsWhere(input,
                {i \in 1..Len(SheetLines(input)) :
                   i < FirstOf(MarkerLinesOf(input, IlluminaDataMarker))})
  /\ applied = <<CallScan>> /\ value.thrown = "null"
       => value.headerSection
            = SheetTextsWhere(input,
                {i \in 1..Len(SheetLines(input)) :
                   /\ ~LineIsEmpty(SheetLines(input)[i])
                   /\ \/ i < FirstOf(LinesWithMarker(input, DataMarker))
                      \/ i \in LinesWithMarker(input, DataMarker)})

\* parseIlluminaSampleSheet succeeded on a sheet with a blank line before
\* its marker line
C14_Witness ==
  /\ applied = <<CallParse>>
  /\ value.thrown = "null"
  /\ input.pre = Pre500Full
  /\ Len(value.headerSection) = 3

\* C15: a parser gives a sheet whose lines are separated by lone CR the
\* header section and the data lines it gives the same sheet separated by LF.
C15_LineEndingsAlike ==
  /\ applied = <<CallParse>> /\ input.eol = CR
       => value = parseIlluminaSampleSheet(fileText([input EXCEPT !.eol = LF]))
  /\ applied = <<CallScan>> /\ input.eol = CR
       => value = scanSheet(fileText([input EXCEPT !.eol = LF]))

\* two data lines of the sheet have a sample identifier and a primary index
\* and share index and index2
SheetIndexedLine(u, i) ==
  /\ SheetCell(u, SheetDataLines(u)[i], SampleIdName) # <<>>
  /\ SheetCell(u, SheetDataLines(u)[i], IndexName) # <<>>

SheetLinesCollide(u, i, j) ==
  /\ i < j
  /\ SheetIndexedLine(u, i)
  /\ SheetIndexedLine(u, j)
  /\ SheetCell(u, SheetDataLines(u)[i], IndexName) = SheetCell(u, SheetDataLines(u)[j], IndexName)
  /\ SheetCell(u, SheetDataLines(u)[i], Index2Name) = SheetCell(u, SheetDataLines(u)[j], Index2Name)

SheetEndsHeaderWith(u, markerLine) ==
  u.pre # <<>> /\ u.pre[Len(u.pre)] = markerLine /\ u.body # <<>>

\* validateSampleSheet2k reports the pair of colliding lines i, j
ReportsCollision(u, i, j) ==
  \E d \in 1..Len(value.duplicatedIndexes) :
    /\ value.duplicatedIndexes[d].key
         = SheetCell(u, SheetDataLines(u)[i], IndexName) \o <<"-">>
             \o SheetCell(u, SheetDataLines(u)[i], Index2Name)
    /\ indexOf(value.duplicatedIndexes[d].samples,
               SheetCell(u, SheetDataLines(u)[i], SampleIdName)) # 0
    /\ indexOf(value.duplicatedIndexes[d].samples,
               SheetCell(u, SheetDataLines(u)[j], SampleIdName)) # 0

\* C16: validateSampleSheet2k applied to a serialized sheet whose header
\* section ends in '[BCLConvert_Data],,,' recognises that line as the data
\* marker and reports the duplicate index combinations of the rows after it.
C16_MarkerWithCommas ==
  (/\ applied = <<CallValidate2k>>
   /\ SheetEndsHeaderWith(input, <<DataMarker, <<>>, <<>>, <<>>>>))
    => \A i, j \in 1..Len(SheetDataLines(input)) :
         SheetLinesCollide(input, i, j) => ReportsCollision(input, i, j)

(***************************************************************************)
(* Claims about the validation of the NextSeq 2000 page (checked under     *)
(* Spec).                                                                  *)
(***************************************************************************)
\* the load got as far as the data rows: a header row with every required
\* column and at least one data line
SheetHasRows(u) ==
  /\ SheetHasHeaderRow(u)
  /\ SheetMissingColumns(u) = {}
  /\ SheetDataLines(u) # <<>>

\* the Sample_ID of data line i, and whether sanitizing would change it
SheetSampleId(u, i) == SheetCell(u, SheetDataLines(u)[i], SampleIdName)
SheetIdChanges(u, i) == replaceSpecialCharacters(SheetSampleId(u, i)) # SheetSampleId(u, i)

\* the original Sample_IDs of the affected data lines, in row order
SheetChangedIds(u) ==
  LET affected == SelectSeq([i \in 1..Len(SheetDataLines(u)) |-> i],
                            LAMBDA i : SheetIdChanges(u, i))
  IN  [n \in 1..Len(affected) |-> SheetSampleId(u, affected[n])]

\* C17: in either parsing mode, a sheet with a data row whose Sample_ID
\* sanitizing would change ends in one error that lists the original
\* Sample_ID of every affected row in row order.
C17_ChangedIdsRejected ==
  (LoadCompleted /\ SheetHasRows(file) /\ SheetChangedIds(file) # <<>>)
    => /\ error.msg = "Invalid characters found in Sample_ID"
       /\ error.detail = SheetChangedIds(file)

\* the composite keys that at least two data lines share, and the lines of
\* one key in row order
SheetKey(u, i) ==
  SheetCell(u, SheetDataLines(u)[i], Index2Name) \o <<"-">>
    \o SheetCell(u, SheetDataLines(u)[i], IndexName)

SheetCollidingKeys(u) ==
  {SheetKey(u, i) : i \in {k \in 1..Len(SheetDataLines(u)) :
                             \E j \in 1..Len(SheetDataLines(u)) :
                               /\ j # k
                               /\ SheetIndexedLine(u, j)
                               /\ SheetIndexedLine(u, k)
                               /\ SheetKey(u, j) = SheetKey(u, k)}}

SheetSamplesOfKey(u, key) ==
  LET users == SelectSeq([i \in 1..Len(SheetDataLines(u)) |-> i],
                         LAMBDA i : SheetIndexedLine(u, i) /\ SheetKey(u, i) = key)
  IN  [n \in 1..Len(users) |-> SheetSampleId(u, users[n])]

\* C18: a sheet with two data rows that share a composite index key (and no
\* Sample_ID that sanitizing would change) ends in one error that lists
\* every colliding key with all the samples that use it.
C18_DuplicateIndexRejected ==
  (/\ LoadCompleted
   /\ SheetHasRows(file)
   /\ SheetChangedIds(file) = <<>>
   /\ SheetCollidingKeys(file) # {})
    => /\ error.msg = "Duplicate index combinations found"
       /\ \A key \in SheetCollidingKeys(file) :
            \E d \in 1..Len(error.detail) :
              /\ error.detail[d].key = key
              /\ error.detail[d].samples = SheetSamplesOfKey(file, key)

(***************************************************************************)
(* ONT page.  The configuration fields keep their initial values; the      *)
(* reactive statement on rows runs after every processContent that leaves  *)
(* rows non-empty.  A file is an upload with one more field, readable:     *)
(* whether file.text() or parseExcel resolves.                             *)
(***************************************************************************)
ont_flowcell_id == <<>>
ont_kit == <<"S","Q","K","_","N","B","D","1","1","1","_","9","6">>
ont_experiment_id == <<>>
ont_type == <<"t","e","s","t","_","s","a","m","p","l","e">>

OntHeaders == <<<<"f","l","o","w","_","c","e","l","l","_","i","d">>, <<"k","i","t">>, <<"s","a","m","p","l","e","_","i","d">>, <<"e","x","p","e","r","i","m","e","n","t","_","i","d">>, <<"b","a","r","c","o","d","e">>, <<"a","l","i","a","s">>, <<"t","y","p","e">>>>

OntHdrFull == <<<<"S","a","m","p","l","e","N","a","m","e">>, <<"B","a","r","c","o","d","e">>, <<"P","r","o","j","e","c","t">>>>
OntHdrSwapped == <<<<"B","a","r","c","o","d","e">>, <<" ","s","a","m","p","l","e","n","a","m","e"," ">>>>
OntHdrMissing == <<<<"S","a","m","p","l","e">>, <<"C","o","d","e">>>>

OntRowPool ==
  {<<<<"s"," ","1">>, <<"N","B","_","0","1">>, <<"P","1">>>>,
   <<<<"s","2">>, <<"B","C","0","2">>>>,
   <<<<"x">>>>}

RECURSIVE OntRowSeqs(_)
OntRowSeqs(n) ==
  IF n = 0 THEN {<<>>}
  ELSE OntRowSeqs(n - 1) \cup {Append(rs, r) : rs \in OntRowSeqs(n - 1), r \in OntRowPool}

\* a workbook that cannot be read: parseExcel rejects
OntBrokenWorkbook ==
  [pre |-> <<>>, body |-> <<>>, eol |-> LF, trailing |-> FALSE, readable |-> FALSE]

OntUploads ==
  {[pre |-> <<>>, body |-> h \o rs, eol |-> LF, trailing |-> FALSE, readable |-> TRUE] :
     h \in {<<OntHdrFull>>, <<OntHdrSwapped>>, <<OntHdrMissing>>, <<>>},
     rs \in OntRowSeqs(MaxRows)}
    \cup {[pre |-> <<>>, body |-> <<OntHdrFull>> \o rs, eol |-> CRLF, trailing |-> TRUE,
            readable |-> TRUE] : rs \in OntRowSeqs(MaxRows)}
    \cup {OntBrokenWorkbook}

\* barcode.startsWith('NB_') ? 'barcode' + barcode.substring(3) : barcode
ont_barcode(barcode) ==
  IF Len(barcode) >= 3 /\ SubSeq(barcode, 1, 3) = <<"N","B","_">>
  THEN <<"b","a","r","c","o","d","e">> \o SubSeq(barcode, 4, Len(barcode))
  ELSE barcode

\* the row built from the cells of one data line
ont_row(cells, sampleIndex, barcodeIndex, projectIndex) ==
  <<ont_flowcell_id, ont_kit, replaceSpecialCharacters(at(cells, sampleIndex)),
    ont_experiment_id, ont_barcode(at(cells, barcodeIndex)),
    replaceSpecialCharacters(at(cells, sampleIndex)),
    IF projectIndex # 0 THEN at(cells, projectIndex) ELSE ont_type>>

\* the catch of processContent
ont_failed(message) ==
  [error |-> [msg |-> message, detail |-> <<>>],
   headers |-> <<>>, rows |-> <<>>, originalRows |-> <<>>]

\* $: if (rows.length > 0) rows = originalRows.map(...)
ont_reactiveRows(newRows, newOriginalRows) ==
  IF Len(newRows) = 0 THEN newRows
  ELSE [i \in 1..Len(newOriginalRows) |->
          [newOriginalRows[i] EXCEPT ![1] = ont_flowcell_id, ![2] = ont_kit,
                                     ![4] = ont_experiment_id,
                                     ![7] = IF ont_type # <<>> THEN ont_type ELSE @]]

\* processContent from the mapping of the data lines on
ont_processRows(dataLines, sampleIndex, barcodeIndex, projectIndex) ==
  IF \E i \in 1..Len(dataLines) :
       /\ Len(cellsOf(dataLines[i])) < sampleIndex \/ Len(cellsOf(dataLines[i])) < barcodeIndex
  THEN ont_failed("Row has insufficient columns")
  ELSE [error |-> NoError,
        headers |-> OntHeaders,
        originalRows |-> [i \in 1..Len(dataLines) |->
                            ont_row(cellsOf(dataLines[i]), sampleIndex, barcodeIndex,
                                    projectIndex)],
        rows |-> ont_reactiveRows(
                   [i \in 1..Len(dataLines) |->
                      ont_row(cellsOf(dataLines[i]), sampleIndex, barcodeIndex, projectIndex)],
                   [i \in 1..Len(dataLines) |->
                      ont_row(cellsOf(dataLines[i]), sampleIndex, barcodeIndex, projectIndex)])]

\* processContent from the parse of the input headers on
ont_processLines(lines, inputHeaders) ==
  IF indexOf(inputHeaders, <<"s","a","m","p","l","e","n","a","m","e">>) = 0 \/ indexOf(inputHeaders, <<"b","a","r","c","o","d","e">>) = 0
  THEN ont_failed("Required columns \"SampleName\" and \"Barcode\" not found")
  ELSE ont_processRows(Tail(lines), indexOf(inputHeaders, <<"s","a","m","p","l","e","n","a","m","e">>),
                       indexOf(inputHeaders, <<"b","a","r","c","o","d","e">>), indexOf(inputHeaders, <<"p","r","o","j","e","c","t">>))

\* the page fields processContent leaves
ont_processContent(content) ==
  IF SelectSeq(splitLines(content), nonBlank) = <<>> THEN ont_failed("File is empty")
  ELSE ont_processLines(SelectSeq(splitLines(content), nonBlank),
                        lowerAll(cellsOf(SelectSeq(splitLines(content), nonBlank)[1])))

\* handleFile up to its await: nothing but file is assigned
ont_handleFile(uploadedFile) ==
  /\ reads = <<>>
  /\ loads < MaxLoads
  /\ loads' = loads + 1
  /\ file' = uploadedFile
  /\ reads' = <<uploadedFile>>
  /\ UNCHANGED <<fileContent, result, error, headers, rows, originalRows, headerSection,
                 reverseComplement2k, utilVars, otherPageVars>>

\* handleFile after the await resolved: the text is stored and processContent runs
ont_handleFileRead ==
  /\ reads # <<>>
  /\ Head(reads).readable
  /\ fileContent' = fileText(Head(reads))
  /\ \E new \in {ont_processContent(fileText(Head(reads)))} :
       /\ error' = new.error
       /\ headers' = new.headers
       /\ rows' = new.rows
       /\ originalRows' = new.originalRows
  /\ reads' = Tail(reads)
  /\ UNCHANGED <<file, result, headerSection, reverseComplement2k, loads, utilVars, otherPageVars>>

\* handleFile after the await rejected: the catch sets error
ont_handleFileReadFailed ==
  /\ reads # <<>>
  /\ ~Head(reads).readable
  /\ error' = [msg |-> "An error occurred processing the file", detail |-> <<>>]
  /\ reads' = Tail(reads)
  /\ UNCHANGED <<file, fileContent, result, headers, rows, originalRows, headerSection,
                 reverseComplement2k, loads, utilVars, otherPageVars>>

OntNext ==
  \/ \E uploadedFile \in OntUploads : ont_handleFile(uploadedFile)
  \/ ont_handleFileRead
  \/ ont_handleFileReadFailed

SpecOnt == Init /\ [][OntNext]_vars

\* C19: no page holds a partially applied parse: once a load has ended in
\* an error, headers, rows and originalRows are empty, so that a table is
\* held only if the parse and validation that produced it completed without
\* error.  Stated for the NextSeq 2000 page (checked under Spec).
C19_NoPartialParse ==
  (LoadCompleted /\ error # NoError)
    => headers = <<>> /\ rows = <<>> /\ originalRows = <<>>

\* C20: once handleFile(f) has completed, whether f was read and parsed or
\* the load failed at any step, the table holds nothing of an earlier file:
\* it is empty or it is the table of f.  Stated for the ONT page (checked
\* under SpecOnt).
C20_TableReplaced ==
  LoadCompleted =>
    \/ headers = <<>> /\ rows = <<>> /\ originalRows = <<>>
    \/ /\ file.readable
       /\ headers = ont_processContent(fileText(file)).headers
       /\ rows = ont_processContent(fileText(file)).rows
       /\ originalRows = ont_processContent(fileText(file)).originalRows

(***************************************************************************)
(* NextSeq 500 page: findColumnIndex, handleDuplicateSampleIds,            *)
(* validateSampleSheet, processContent.                                    *)
(***************************************************************************)
\* name.toLowerCase().replace(/[_\s]/g, '')
looseName(name) ==
  SelectSeq(toLowerCase(name), LAMBDA c : ~(c = "_" \/ IsWhiteSpace(c)))

\* the 1-based position of the first header that matches loosely, 0 if none
findColumnIndex(hdrs, columnName) ==
  indexOf([i \in 1..Len(hdrs) |-> looseName(hdrs[i])], looseName(columnName))

SampleIdColumn == <<"S","a","m","p","l","e","_","I","D">>
DescriptionColumn == <<"D","e","s","c","r","i","p","t","i","o","n">>
Index2Column == <<"i","n","d","e","x","2">>

\* sampleIdCounts[sampleId] after row i has been counted
sampleIdCount(rs, sampleIdCol, i) ==
  Cardinality({j \in 1..i : at(rs[j], sampleIdCol) = at(rs[i], sampleIdCol)})

\* the suffixed identifier written back to a repeated row
suffixedSampleId(rs, sampleIdCol, i) ==
  at(rs[i], sampleIdCol) \o <<"_">> \o numberToString(sampleIdCount(rs, sampleIdCol, i))

\* the rows with every Sample_ID equal to an earlier one given a suffix
handleDuplicateSampleIds_Unsuffixed(rs, hdrs) == rs

handleDuplicateSampleIds(rs, hdrs) ==
  IF findColumnIndex(hdrs, SampleIdColumn) = 0 THEN rs
  ELSE [i \in 1..Len(rs) |->
          IF sampleIdCount(rs, findColumnIndex(hdrs, SampleIdColumn), i) > 1
          THEN IF /\ findColumnIndex(hdrs, DescriptionColumn) # 0
                  /\ at(rs[i], findColumnIndex(hdrs, DescriptionColumn))
                       = at(rs[i], findColumnIndex(hdrs, SampleIdColumn))
               THEN setCell(setCell(rs[i], findColumnIndex(hdrs, SampleIdColumn),
                              suffixedSampleId(rs, findColumnIndex(hdrs, SampleIdColumn), i)),
                            findColumnIndex(hdrs, DescriptionColumn),
                            suffixedSampleId(rs, findColumnIndex(hdrs, SampleIdColumn), i))
               ELSE setCell(rs[i], findColumnIndex(hdrs, SampleIdColumn),
                            suffixedSampleId(rs, findColumnIndex(hdrs, SampleIdColumn), i))
          ELSE rs[i]]

\* one data line of processContent: its trimmed cells, an empty Description
\* filled with the Sample_ID
filledCells(cells, sampleIdCol, descriptionCol) ==
  IF /\ descriptionCol # 0
     /\ sampleIdCol # 0
     /\ at(cells, descriptionCol) \in {<<>>, Undefined}
  THEN setCell(cells, descriptionCol, at(cells, sampleIdCol))
  ELSE cells

processedRows500(dataLines, hdrs) ==
  [i \in 1..(Len(dataLines) - 1) |->
     filledCells(cellsOf(dataLines[i + 1]), findColumnIndex(hdrs, SampleIdColumn),
                 findColumnIndex(hdrs, DescriptionColumn))]

\* rows with index2 reverse complemented whatever the store holds
displayedRows500_Always(origRows, hdrs, flag) ==
  [i \in 1..Len(origRows) |->
     IF /\ findColumnIndex(hdrs, Index2Column) # 0
        /\ at(origRows[i], findColumnIndex(hdrs, Index2Column)) \notin {<<>>, Undefined}
     THEN setCell(origRows[i], findColumnIndex(hdrs, Index2Column),
                  reverseComplement(at(origRows[i], findColumnIndex(hdrs, Index2Column))))
     ELSE origRows[i]]

\* rows of processContent: originalRows with index2 reverse complemented
\* when the store is set
displayedRows500(origRows, hdrs, flag) ==
  [i \in 1..Len(origRows) |->
     IF /\ flag
        /\ findColumnIndex(hdrs, Index2Column) # 0
        /\ at(origRows[i], findColumnIndex(hdrs, Index2Column)) \notin {<<>>, Undefined}
     THEN setCell(origRows[i], findColumnIndex(hdrs, Index2Column),
                  reverseComplement(at(origRows[i], findColumnIndex(hdrs, Index2Column))))
     ELSE origRows[i]]

(***************************************************************************)
(* validateSampleSheet                                                     *)
(***************************************************************************)
expectedHeader == <<<<"S","a","m","p","l","e","_","I","D">>, <<"D","e","s","c","r","i","p","t","i","o","n">>, <<"I","7","_","I","n","d","e","x","_","I","D">>, <<"i","n","d","e","x">>, <<"I","5","_","I","n","d","e","x","_","I","D">>, <<"i","n","d","e","x","2">>, <<"S","a","m","p","l","e","_","P","r","o","j","e","c","t">>>>

\* ADAPTER_LIST.nextera_xt_v2.get(id) || fallback
adapterOr(id, fallback) ==
  IF id = <<"N","7","0","1">> THEN <<"T","A","A","G","G","C","G","A">>
  ELSE IF id = <<"S","5","2","2">> THEN <<"T","T","A","T","G","C","G","A">>
  ELSE fallback

\* s.replace(sub, ''): the first occurrence of sub is removed
removeFirst(s, sub) ==
  IF includes(s, sub)
  THEN LET i == CHOOSE k \in 1..(Len(s) - Len(sub) + 1) :
                  /\ SubSeq(s, k, k + Len(sub) - 1) = sub
                  /\ \A j \in 1..(k - 1) : SubSeq(s, j, j + Len(sub) - 1) # sub
       IN  SubSeq(s, 1, i - 1) \o SubSeq(s, i + Len(sub), Len(s))
  ELSE s

\* the sample line pushed for a row that opens a new index pair
sampleLine(row) ==
  join(<<removeSpecialChars(row[1], "-", TRUE),
         IF row[2] # <<>> THEN removeSpecialChars(row[2], "-", TRUE)
         ELSE removeSpecialChars(row[1], "-", TRUE),
         removeFirst(row[3], <<"A","-">>),
         adapterOr(removeFirst(row[3], <<"A","-">>), row[4]),
         removeFirst(row[5], <<"A","-">>),
         reverseComplement(adapterOr(removeFirst(row[5], <<"A","-">>), row[6])),
         removeSpecialChars(row[7], "-", TRUE)>>, Comma)

\* one line of the loop of validateSampleSheet; st.thrown is the message of
\* the error thrown so far, "null" if none
validateLine(line, st) ==
  IF st.thrown # "null" \/ trim(line) = <<>> THEN st
  ELSE IF ~st.foundHeader
  THEN IF includes(toLowerCase(cellsOf(line)[1]), <<"s","a","m","p","l","e">>)
       THEN IF \A i \in 1..Len(expectedHeader) : at(cellsOf(line), i) = expectedHeader[i]
            THEN [st EXCEPT !.foundHeader = TRUE, !.samples = Append(@, line)]
            ELSE [st EXCEPT !.thrown = "Invalid column headers"]
       ELSE [st EXCEPT !.samples = Append(@, line)]
  ELSE IF Len(cellsOf(line)) < 7
  THEN [st EXCEPT !.thrown = "TypeError: Cannot read properties of undefined (reading 'replace')"]
  ELSE LET pairIndex == cellsOf(line)[4] \o <<"+">> \o cellsOf(line)[6]
           cleanSampleId == removeSpecialChars(cellsOf(line)[1], "-", TRUE)
           seen == indexOf(keysOf(st.duplicatedIndexes), pairIndex)
       IN  IF seen # 0
           THEN [st EXCEPT !.duplicatedIndexes[seen].samples = @ \o Comma \o cleanSampleId]
           ELSE [st EXCEPT !.duplicatedIndexes =
                             Append(@, [key |-> pairIndex, samples |-> cleanSampleId]),
                           !.samples = Append(@, sampleLine(cellsOf(line)))]

RECURSIVE validateLines(_, _)
validateLines(lines, st) ==
  IF lines = <<>> THEN st ELSE validateLines(Tail(lines), validateLine(Head(lines), st))

\* thrown is the message of the error thrown, "null" when the call returns
validateSampleSheet(content) ==
  LET st == validateLines(split(content, "\n"),
                          [foundHeader |-> FALSE, thrown |-> "null", samples |-> <<>>,
                           duplicatedIndexes |-> <<>>])
  IN  [thrown |-> st.thrown,
       samples |-> st.samples,
       duplicatedIndexes |-> SelectSeq(st.duplicatedIndexes,
                                       LAMBDA d : includes(d.samples, Comma))]

(***************************************************************************)
(* NextSeq 500 page: processContent.  cur holds the page fields the call   *)
(* starts from (error, result, headers, rows, originalRows), flag the      *)
(* value of the store.                                                     *)
(***************************************************************************)
\* processContent from the call of validateSampleSheet on
validated500(loaded, validation) ==
  IF validation.thrown # "null"
  THEN [loaded EXCEPT !.error = [msg |-> validation.thrown, detail |-> <<>>],
                      !.result = NoResult]
  ELSE [loaded EXCEPT !.error = NoError,
                      !.result = <<[samples |-> validation.samples,
                                    duplicatedIndexes |-> validation.duplicatedIndexes]>>]

\* processContent from the assignment of headers on
loaded500(cur, dataLines, hdrs, origRows, flag) ==
  validated500([cur EXCEPT !.headers = hdrs, !.originalRows = origRows,
                           !.rows = displayedRows500(origRows, hdrs, flag)],
               validateSampleSheet(join(dataLines, <<"\n">>)))

parsed500(cur, parsed, flag) ==
  IF parsed.thrown # "null"
  THEN [cur EXCEPT !.error = [msg |-> parsed.thrown, detail |-> <<>>], !.result = NoResult]
  ELSE loaded500(cur, parsed.dataLines, cellsOf(parsed.dataLines[1]),
                 IF Len(cur.originalRows) = 0
                 THEN handleDuplicateSampleIds(
                        processedRows500(parsed.dataLines, cellsOf(parsed.dataLines[1])),
                        cellsOf(parsed.dataLines[1]))
                 ELSE cur.originalRows,
                 flag)

processContent500(content, cur, flag) ==
  parsed500(cur, parseIlluminaSampleSheet(content), flag)

(***************************************************************************)
(* downloadValidated: the text offered for download, shared by the         *)
(* NextSeq 2000 and NextSeq 500 pages.                                     *)
(***************************************************************************)
ProjectWord == <<"p","r","o","j","e","c","t">>

\* headers.findIndex(header => header.toLowerCase().includes('project'))
projectColIndex(hdrs) ==
  IF \E i \in 1..Len(hdrs) : includes(toLowerCase(hdrs[i]), ProjectWord)
  THEN CHOOSE i \in 1..Len(hdrs) :
         /\ includes(toLowerCase(hdrs[i]), ProjectWord)
         /\ \A j \in 1..(i - 1) : ~includes(toLowerCase(hdrs[j]), ProjectWord)
  ELSE 0

\* array.filter((_, i) => i !== index)
withoutIndex(array, index) ==
  [i \in 1..(Len(array) - (IF index \in 1..Len(array) THEN 1 ELSE 0)) |->
     IF index \in 1..Len(array) /\ i >= index THEN array[i + 1] ELSE array[i]]

downloadHeaders(hdrs, removeProject) ==
  IF removeProject /\ projectColIndex(hdrs) # 0
  THEN withoutIndex(hdrs, projectColIndex(hdrs))
  ELSE hdrs

downloadRows(rs, hdrs, removeProject) ==
  IF removeProject /\ projectColIndex(hdrs) # 0
  THEN [i \in 1..Len(rs) |-> withoutIndex(rs[i], projectColIndex(hdrs))]
  ELSE rs

\* while (paddedRow.length < length) paddedRow.push('')
paddedRow_Unpadded(cells, length) == cells

paddedRow(cells, length) ==
  [i \in 1..(IF Len(cells) < length THEN length ELSE Len(cells)) |->
     IF i <= Len(cells) THEN cells[i] ELSE <<>>]

\* array.join(','): an undefined element is written as the empty string
joinCells(cells) ==
  join([i \in 1..Len(cells) |-> IF cells[i] = Undefined THEN <<>> ELSE cells[i]], Comma)

\* [...section, downloadHeaders.join(','), ...padded rows].join('\n')
csvContent(section, hdrs, rs, removeProject) ==
  join(section
         \o <<joinCells(downloadHeaders(hdrs, removeProject))>>
         \o [i \in 1..Len(rs) |->
               joinCells(paddedRow(downloadRows(rs, hdrs, removeProject)[i],
                                   Len(downloadHeaders(hdrs, removeProject))))],
       LF)

\* the download buttons are rendered: getSummaryStats() is not null
statsShown == headers # <<>> /\ rows # <<>> /\ projectColIndex(headers) # 0

\* NextSeq 2000 page: a click on one of the two download buttons, which are
\* rendered only while no error is shown
downloadValidated(removeProject) ==
  /\ error = NoError
  /\ statsShown
  /\ headerSection' = ConfigHeaderSection
  /\ download' = [csvContent |-> csvContent(ConfigHeaderSection, headers, rows, removeProject),
                  removeProject |-> removeProject]
  /\ UNCHANGED <<file, fileContent, result, error, headers, rows, originalRows,
                 reverseComplement2k, reverseComplement500, reads, loads, utilVars>>

(***************************************************************************)
(* NextSeq 500 page: uploads and events                                    *)
(***************************************************************************)
Hdr500Loose == <<<<"S","a","m","p","l","e"," ","I","D">>, <<"d","e","s","c","r","i","p","t","i","o","n">>, <<"I","7","_","I","n","d","e","x","_","I","D">>, <<"i","n","d","e","x">>, <<"I","5","_","I","n","d","e","x","_","I","D">>, <<"i","n","d","e","x","2">>, <<"S","a","m","p","l","e","_","P","r","o","j","e","c","t">>>>
Hdr500TwoProjects == <<<<"S","a","m","p","l","e","_","I","D">>, <<"D","e","s","c","r","i","p","t","i","o","n">>, <<"I","7","_","I","n","d","e","x","_","I","D">>, <<"i","n","d","e","x">>, <<"I","5","_","I","n","d","e","x","_","I","D">>, <<"i","n","d","e","x","2">>, <<"S","a","m","p","l","e","_","P","r","o","j","e","c","t">>, <<"P","r","o","j","e","c","t","_","O","w","n","e","r">>>>

Row500Complete == <<<<"S","1">>, <<>>, <<"N","7","0","1">>, <<"T","A","A","G","G","C","G","A">>, <<"S","5","2","2">>, <<"T","T","A","T","G","C","G","A">>, <<"P","1">>>>
Row500Repeated == <<<<"S","1">>, <<"d">>, <<"A","-","N","7","0","1">>, <<"G","G">>, <<"S","5","2","2">>, <<"T","T">>, <<"P","2">>, <<"o","w","n">>>>
Row500Short == <<<<"S","3">>, <<>>, <<"N","7","0","1">>>>
Row500TrailingEmpty == <<<<"S","4">>, <<"d">>, <<"N","7","0","1">>, <<"A","C">>, <<"S","5","2","2">>, <<"G","T">>, <<>>>>

layout500(hdr, eol, trailing) ==
  [pre |-> Pre500Full, hdr |-> <<hdr>>, eol |-> eol, trailing |-> trailing]

\* the sheets dropped on the page: a complete row, a row with an empty last
\* cell, a short row, a repeated Sample_ID with one cell too many and a
\* complete row followed by a short one under the canonical header row; a complete row under the loosened names; the
\* repeated Sample_ID under a header row with two project columns; a sheet
\* with Windows line endings
PageUploads500 ==
  {upload(layout500(Hdr500, LF, FALSE), rs) :
     rs \in {<<Row500Complete>>, <<Row500TrailingEmpty>>, <<Row500Short>>,
             <<Row500Complete, Row500Repeated>>, <<Row500Complete, Row500Short>>}}
    \cup {upload(layout500(Hdr500Loose, LF, FALSE), <<Row500Complete>>),
          upload(layout500(Hdr500TwoProjects, LF, FALSE),
                 <<Row500Complete, Row500Repeated>>),
          upload(layout500(Hdr500, CRLF, TRUE), <<Row500Complete>>)}

\* the page fields processContent reads and writes
pageFields500 ==
  [error |-> error, result |-> result, headers |-> headers, rows |-> rows,
   originalRows |-> originalRows]

\* handleFile up to its first await
nextseq500_handleFile(uploadedFile) ==
  /\ reads = <<>>
  /\ loads < MaxLoads
  /\ loads' = loads + 1
  /\ file' = uploadedFile
  /\ reverseComplement500' = FALSE
  /\ fileContent' = <<>>
  /\ result' = NoResult
  /\ error' = NoError
  /\ headers' = <<>>
  /\ rows' = <<>>
  /\ originalRows' = <<>>
  /\ reads' = <<uploadedFile>>
  /\ UNCHANGED <<headerSection, reverseComplement2k, download, utilVars>>

\* the reactive block: processContent runs again on a non-empty fileContent
reactiveContent500(content, cur, flag) ==
  IF content # <<>> THEN processContent500(content, cur, flag) ELSE cur

\* handleFile after the await: fileContent is assigned, processContent runs,
\* and the reactive block on fileContent runs processContent once more
nextseq500_handleFileRead ==
  /\ reads # <<>>
  /\ fileContent' = fileText(Head(reads))
  /\ \E new \in {reactiveContent500(fileText(Head(reads)),
                   processContent500(fileText(Head(reads)), pageFields500,
                                     reverseComplement500),
                   reverseComplement500)} :
       /\ error' = new.error
       /\ result' = new.result
       /\ headers' = new.headers
       /\ rows' = new.rows
       /\ originalRows' = new.originalRows
  /\ reads' = Tail(reads)
  /\ UNCHANGED <<file, headerSection, reverseComplement2k, reverseComplement500,
                 download, loads, utilVars>>

\* a click on the checkbox, which is always rendered: bind:checked flips the
\* store, then on:change runs handleReverseComplementToggle
nextseq500_handleReverseComplementToggle ==
  /\ reverseComplement500' = ~reverseComplement500
  /\ LET index2ColIndex == indexOf(lowerAll(headers), Index2Name)
         original(i) == at(at(originalRows, i), index2ColIndex)
         throws == \E i \in 1..Len(rows) :
                     \/ i > Len(originalRows)
                     \/ reverseComplement500' /\ original(i) = Undefined
     IN  IF rows = <<>> \/ index2ColIndex = 0 \/ throws
         THEN rows' = rows
         ELSE rows' = [i \in 1..Len(rows) |->
                         setCell(rows[i], index2ColIndex,
                                 IF reverseComplement500'
                                 THEN reverseComplement(original(i))
                                 ELSE original(i))]
  /\ UNCHANGED <<file, fileContent, result, error, headers, originalRows,
                 headerSection, reverseComplement2k, download, reads, loads, utilVars>>

\* a click on one of the two download buttons
nextseq500_downloadValidated(removeProject) ==
  /\ statsShown
  /\ fileContent # <<>>
  /\ \E parsed \in {parseIlluminaSampleSheet(fileContent)} :
       IF parsed.thrown # "null"
       THEN /\ error' = [msg |-> parsed.thrown, detail |-> <<>>]
            /\ download' = download
       ELSE /\ download' = [csvContent |->
                              csvContent(parsed.headerSection \o <<IlluminaDataMarker>>,
                                         headers, rows, removeProject),
                            removeProject |-> removeProject]
            /\ error' = error
  /\ UNCHANGED <<file, fileContent, result, headers, rows, originalRows, headerSection,
                 reverseComplement2k, reverseComplement500, reads, loads, utilVars>>

(***************************************************************************)
(* The two Illumina pages side by side: the page in use is the one whose   *)
(* upload is held in file (no NextSeq 500 upload is a NextSeq 2000 upload). *)
(***************************************************************************)
PageUploads2k ==
  {u \in Uploads :
     /\ Len(u.body) > 1
     /\ u.pre \o <<u.body[1]>> \in {<<HdrCanonical>>, PreFull \o <<HdrCanonical>>,
                                    PreFull \o <<HdrPermuted>>}
     /\ Len(u.body[2]) = 4
     /\ \A i, j \in 2..Len(u.body) : i # j => u.body[i] # u.body[j]}

On2k == file \in PageUploads2k \cup {NoFile}
On500 == file \in PageUploads500 \cup {NoFile}

nextseq2k_handleFile(uploadedFile) == On2k /\ handleFile(uploadedFile)
nextseq2k_handleFileRead == On2k /\ handleFileRead
nextseq2k_handleReverseComplementToggle == On2k /\ handleReverseComplementToggle
nextseq2k_downloadValidated(removeProject) == On2k /\ downloadValidated(removeProject)

page500_handleFile(uploadedFile) == On500 /\ nextseq500_handleFile(uploadedFile)
page500_handleFileRead == On500 /\ nextseq500_handleFileRead
page500_handleReverseComplementToggle == On500 /\ nextseq500_handleReverseComplementToggle
page500_downloadValidated(removeProject) == On500 /\ nextseq500_downloadValidated(removeProject)

NextPages ==
  \/ \E uploadedFile \in PageUploads2k : nextseq2k_handleFile(uploadedFile)
  \/ nextseq2k_handleFileRead
  \/ nextseq2k_handleReverseComplementToggle
  \/ \E removeProject \in BOOLEAN : nextseq2k_downloadValidated(removeProject)
  \/ \E uploadedFile \in PageUploads500 : page500_handleFile(uploadedFile)
  \/ page500_handleFileRead
  \/ page500_handleReverseComplementToggle
  \/ \E removeProject \in BOOLEAN : page500_downloadValidated(removeProject)

SpecPages == Init /\ [][NextPages]_vars

(***************************************************************************)
(* Claims about downloadValidated (checked under SpecPages).  A step       *)
(* offers a download when it changes download; the text is compared with   *)
(* the lines the claim lists, built from the fields of the page.           *)
(***************************************************************************)
\* the header-section lines of the page: the headerSection field on the
\* NextSeq 2000 page, the header section parsed from the file content on
\* the NextSeq 500 page
SectionLines ==
  IF file \in PageUploads500
  THEN parseIlluminaSampleSheet(fileContent).headerSection
  ELSE headerSection

\* the same lines when a step exports them: downloadValidated of the
\* NextSeq 2000 page assigns headerSection before it writes the text, and
\* no export changes file or fileContent
ExportedSectionLines ==
  IF file \in PageUploads500
  THEN parseIlluminaSampleSheet(fileContent).headerSection
  ELSE headerSection'

\* cells with empty cells added up to the given length
RightPadded(cells, length) == cells \o [k \in 1..(length - Len(cells)) |-> <<>>]

\* section lines, the header line, one line per row
SheetLinesOf(section, hdrs, rs) ==
  section \o <<joinCells(hdrs)>> \o [i \in 1..Len(rs) |-> joinCells(rs[i])]

PaddedRows(rs, length) == [i \in 1..Len(rs) |-> RightPadded(rs[i], length)]

\* the text is the given lines joined by single newlines
TextIs(text, sheetLines) == \E ls \in {sheetLines} : text = join(ls, LF)

\* the section lines with the line '[Data]' after them on the NextSeq 500 page
SectionLinesWithMarker(section) ==
  IF file \in PageUploads500 THEN section \o <<IlluminaDataMarker>> ELSE section

Exports(removeProject) == download' # download /\ download'.removeProject = removeProject

Exported(removeProject) == download # NoDownload /\ download.removeProject = removeProject

\* C21 as stated: the text exported without column removal is the
\* header-section lines, the headers joined by ',' and one line per row with
\* the cells of the row joined by ',', joined by single newlines
C21_ExportText ==
  [][Exports(FALSE) =>
       \E section \in {ExportedSectionLines} :
         TextIs(download'.csvContent, SheetLinesOf(section, headers, rows))]_vars

\* C21 amended: the text exported without column removal is the
\* header-section lines (followed on the NextSeq 500 page by the line
\* '[Data]'), the headers joined by ',' and one line per row with the cells
\* of the row, right-padded with empty cells to the number of headers,
\* joined by ','; all joined by single newlines, with no trailing newline
\* and no quoting
C21_ExportTextPadded ==
  [][Exports(FALSE) =>
       \E section \in {SectionLinesWithMarker(ExportedSectionLines)} :
         TextIs(download'.csvContent,
                SheetLinesOf(section, headers, PaddedRows(rows, Len(headers))))]_vars

\* a sheet with a row shorter than the header row has been exported from
\* the NextSeq 500 page without column removal
C21_Witness ==
  /\ Exported(FALSE)
  /\ file \in PageUploads500
  /\ \E i \in 1..Len(rows) : Len(rows[i]) < Len(headers)
  /\ \E section \in {SectionLinesWithMarker(SectionLines)} :
       TextIs(download.csvContent,
              SheetLinesOf(section, headers, PaddedRows(rows, Len(headers))))

\* the positions of the headers the removal predicate matches
ProjectHeaders(hdrs) ==
  {i \in 1..Len(hdrs) : includes(toLowerCase(hdrs[i]), ProjectWord)}

\* cells without the cell at the one position the predicate matches, and
\* all the cells when it matches no header or several
WithoutTheProjectColumn(cells, hdrs) ==
  IF Cardinality(ProjectHeaders(hdrs)) = 1
  THEN SelectSeq([i \in 1..Len(cells) |-> <<i, cells[i]>>],
                 LAMBDA c : c[1] \notin ProjectHeaders(hdrs))
  ELSE [i \in 1..Len(cells) |-> <<i, cells[i]>>]

CellsOf(indexed) == [i \in 1..Len(indexed) |-> indexed[i][2]]

\* C22: with removeProject set the exported text has the project column
\* dropped from the headers and from every row when exactly one header
\* contains 'project' (case-insensitive) and no column dropped otherwise;
\* every exported row is then right-padded with empty cells to the length of
\* the exported header line and never truncated
C22_ProjectColumnDropped ==
  [][Exports(TRUE) =>
       \E section \in {SectionLinesWithMarker(ExportedSectionLines)} :
         \E hdrs \in {CellsOf(WithoutTheProjectColumn(headers, headers))} :
           \E rs \in {[i \in 1..Len(rows) |->
                        CellsOf(WithoutTheProjectColumn(rows[i], headers))]} :
             TextIs(download'.csvContent,
                    SheetLinesOf(section, hdrs, PaddedRows(rs, Len(hdrs))))]_vars

(***************************************************************************)
(* Claims about the ONT page (checked under SpecOnt).  The sheet is read   *)
(* off the upload held in file: its first line is the header row, each     *)
(* further line a data row given by its raw cells.                         *)
(***************************************************************************)
\* the 1-based position of a column in the header row of the sheet, 0 if
\* the sheet has no such column
OntColumn(name) ==
  IF file.body = <<>> THEN 0
  ELSE indexOf([i \in 1..Len(file.body[1]) |-> toLowerCase(trim(file.body[1][i]))], name)

OntSampleName == <<"s","a","m","p","l","e","n","a","m","e">>
OntBarcode == <<"b","a","r","c","o","d","e">>
OntProject == <<"p","r","o","j","e","c","t">>

\* the highest position processContent reads from a data row
OntHighestRead ==
  CHOOSE p \in {OntColumn(OntSampleName), OntColumn(OntBarcode), OntColumn(OntProject)} :
    \A q \in {OntColumn(OntSampleName), OntColumn(OntBarcode), OntColumn(OntProject)} : q <= p

\* some data row has fewer cells than the highest position read from it
OntRowTooShort ==
  /\ OntColumn(OntSampleName) # 0
  /\ OntColumn(OntBarcode) # 0
  /\ \E i \in 2..Len(file.body) : Len(file.body[i]) < OntHighestRead

\* processContent has run on the text of file
OntParsed == LoadCompleted /\ file.readable

\* C23: ONT processContent fails with the insufficient-cells error whenever
\* some data row has fewer cells than the highest column it reads from that
\* row (SampleName, Barcode and, when present, Project), and a failed parse
\* leaves headers, rows and originalRows empty
C23_InsufficientCells ==
  OntParsed =>
    /\ OntRowTooShort => error.msg = "Row has insufficient columns"
    /\ error # NoError => headers = <<>> /\ rows = <<>> /\ originalRows = <<>>

\* every row has a cell under every header and no cell is undefined
AllCellsAreStrings(table) ==
  \A i \in 1..Len(table) :
    /\ Len(table[i]) >= Len(headers)
    /\ \A j \in 1..Len(table[i]) : table[i][j] # Undefined

\* C24: in every state reached after a load, every cell of every row of
\* rows and originalRows is a string: a value missing because the input
\* line is shorter than the header row (a line whose trailing cells are
\* empty included) is the empty string, never undefined and never a hole
\* in the row.  Stated for the two Illumina pages (checked under SpecPages).
C24_NoUndefinedCells ==
  LoadCompleted => AllCellsAreStrings(rows) /\ AllCellsAreStrings(originalRows)

(***************************************************************************)
(* Claims about the NextSeq 500 page (checked under SpecPages).  The sheet *)
(* is read off the upload held in file: after the prelude, which ends with *)
(* the '[Data]' line, the first line is the header row and each further    *)
(* line a data row given by its raw cells.                                 *)
(***************************************************************************)
\* the header row names the canonical columns up to letter case,
\* underscores and whitespace
HeaderRowIsLoosened(hdrs) ==
  /\ Len(hdrs) >= Len(expectedHeader)
  /\ \A i \in 1..Len(expectedHeader) : looseName(hdrs[i]) = looseName(expectedHeader[i])

\* every data row has a non-empty cell under each canonical column's end
DataRowsComplete(u) ==
  \A i \in 2..Len(u.body) :
    /\ Len(u.body[i]) >= Len(expectedHeader)
    /\ u.body[i][Len(u.body[i])] # <<>>

\* a NextSeq 500 sheet with a loosened header row has been loaded
LoosenedSheetLoaded ==
  /\ LoadCompleted
  /\ file \in PageUploads500
  /\ HeaderRowIsLoosened(file.body[1])
  /\ DataRowsComplete(file)

\* C25: a NextSeq 500 sheet whose header names differ from the canonical
\* names only by letter case, underscores or whitespace is matched to the
\* canonical columns: processContent completes without error and produces
\* a table and a validation result
C25_LoosenedHeadersAccepted ==
  LoosenedSheetLoaded =>
    /\ error = NoError
    /\ result # NoResult
    /\ headers # <<>>
    /\ rows # <<>>

(***************************************************************************)
(* Overlapping loads on the NextSeq 2000 page: handleFile is called again  *)
(* while the read of an earlier call is awaited, and the awaited reads     *)
(* resolve in either order.                                                *)
(***************************************************************************)
\* handleFile up to its first await, called while a read is awaited
handleFileOverlapping(uploadedFile) ==
  /\ reads # <<>>
  /\ loads < MaxLoads
  /\ loads' = loads + 1
  /\ file' = uploadedFile
  /\ error' = NoError
  /\ result' = NoResult
  /\ headers' = <<>>
  /\ rows' = <<>>
  /\ originalRows' = <<>>
  /\ reverseComplement2k' = FALSE
  /\ fileContent' = <<>>
  /\ reads' = Append(reads, uploadedFile)
  /\ UNCHANGED <<headerSection, utilVars, otherPageVars>>

\* handleFile after the await of the i-th awaited read: the text is stored
\* and processContent runs
handleFileReadOf(i) ==
  /\ i \in 1..Len(reads)
  /\ \E content \in {fileText(reads[i])} :
       /\ fileContent' = content
       /\ \E new \in {IF content = <<>>
                      THEN thrown([error |-> error, headers |-> headers, rows |-> rows,
                                   originalRows |-> originalRows,
                                   headerSection |-> headerSection],
                                  "No file content received", <<>>)
                      ELSE processContent(content,
                                  [error |-> error, headers |-> headers, rows |-> rows,
                                   originalRows |-> originalRows,
                                   headerSection |-> headerSection])} :
            /\ error' = new.error
            /\ headers' = new.headers
            /\ rows' = new.rows
            /\ originalRows' = new.originalRows
            /\ headerSection' = new.headerSection
  /\ reads' = SubSeq(reads, 1, i - 1) \o SubSeq(reads, i + 1, Len(reads))
  /\ result' = NoResult
  /\ UNCHANGED <<file, reverseComplement2k, loads, utilVars, otherPageVars>>

RaceNext ==
  \/ \E uploadedFile \in PageUploads2k : handleFile(uploadedFile)
  \/ \E uploadedFile \in PageUploads2k : handleFileOverlapping(uploadedFile)
  \/ \E i \in 1..MaxLoads : handleFileReadOf(i)

SpecRace == Init /\ [][RaceNext]_vars

\* the fields processContent leaves when the file is loaded on its own
LoadedAlone(u) ==
  processContent(fileText(u),
                 [error |-> NoError, headers |-> <<>>, rows |-> <<>>,
                  originalRows |-> <<>>, headerSection |-> headerSection])

\* the table is empty or it is the table of the file recorded in file
TableIsOf(loaded) ==
  \/ headers = <<>> /\ rows = <<>> /\ originalRows = <<>>
  \/ headers = loaded.headers /\ rows = loaded.rows /\ originalRows = loaded.originalRows

\* C26: when handleFile(B) starts while the read of handleFile(A) is
\* pending, then once both calls have completed the page state is the one
\* produced by B, the file loaded last and recorded in file, whichever read
\* resolves first; and the table never belongs to another file than file
C26_LastLoadWins ==
  (file # NoFile) =>
    \E loaded \in {LoadedAlone(file)} :
      /\ TableIsOf(loaded)
      /\ LoadCompleted =>
           /\ fileContent = fileText(file)
           /\ error = loaded.error
           /\ headers = loaded.headers
           /\ rows = loaded.rows
           /\ originalRows = loaded.originalRows

(***************************************************************************)
(* Claims about the reverse-complement checkbox of the two Illumina pages  *)
(* (checked under SpecPages).                                              *)
(***************************************************************************)
\* the reverse-complement flag of the page in use
Flag == IF file \in PageUploads500 THEN reverseComplement500 ELSE reverseComplement2k

\* the 1-based position of the Index2 header, 0 if there is none
Index2Position == indexOf(lowerAll(headers), Index2Name)

\* a click on the checkbox of a loaded table with an Index2 column
TogglesLoadedTable ==
  /\ LoadCompleted
  /\ rows # <<>>
  /\ Index2Position # 0
  /\ loads' = loads
  /\ Flag' # Flag

Longest(a, b) == IF Len(a) > Len(b) THEN Len(a) ELSE Len(b)

\* C27: after a reverse-complement toggle on a loaded table, the cell under
\* the Index2 header of every row is reverseComplement of the row's
\* original Index2 value when the flag is on and that original value when
\* the flag is off; every other cell, the headers, originalRows and the
\* number of rows are unchanged
C27_ToggleProjectsIndex2 ==
  [][TogglesLoadedTable =>
       /\ headers' = headers
       /\ originalRows' = originalRows
       /\ Len(rows') = Len(rows)
       /\ \A i \in 1..Len(rows) :
            /\ \A j \in 1..Longest(rows[i], rows'[i]) :
                 j # Index2Position => at(rows'[i], j) = at(rows[i], j)
            /\ at(originalRows[i], Index2Position) # Undefined =>
                 at(rows'[i], Index2Position) =
                   IF Flag' THEN reverseComplement(at(originalRows[i], Index2Position))
                   ELSE at(originalRows[i], Index2Position)]_vars

\* a handleFile call starts
LoadStarts == loads' = loads + 1

\* the read of a handleFile call resolves and the call completes
LoadCompletes == reads # <<>> /\ reads' = <<>>

\* C28: loading a file switches the reverse-complement flag off before the
\* content is parsed: the flag is false once handleFile has started, and
\* when the call completes with the flag still false (no toggle in between)
\* the flag is false and the Index2 cell of every row is the untransformed
\* value, the one held in originalRows
C28_LoadSwitchesFlagOff ==
  [][/\ LoadStarts => ~Flag'
     /\ (LoadCompletes /\ ~Flag) =>
          /\ ~Flag'
          /\ Len(rows') \in {0, Len(originalRows')}
          /\ \A i \in 1..Len(rows') :
               at(rows'[i], Index2Position') = at(originalRows'[i], Index2Position')]_vars

\* a second load has completed on the NextSeq 500 page with the flag off and
\* an Index2 value that its reverse complement would change
C28_Witness ==
  /\ LoadCompleted
  /\ loads = 2
  /\ file \in PageUploads500
  /\ ~reverseComplement500
  /\ \E i \in 1..Len(rows) :
       /\ at(rows[i], Index2Position) \notin {<<>>, Undefined}
       /\ at(rows[i], Index2Position) = at(originalRows[i], Index2Position)
       /\ reverseComplement(at(rows[i], Index2Position)) # at(rows[i], Index2Position)

(***************************************************************************)
(* The composite index keys of processRows, validateSampleSheet2k and      *)
(* validateSampleSheet, as functions of two rows given by their index and  *)
(* index2 cells.                                                           *)
(***************************************************************************)
\* index cells: a base, and the base next to the characters the keys are
\* built with
KeyCells == {<<"A">>, <<"A", "-">>, <<"-", "A">>, <<"A", "+">>, <<"+", "A">>}

KeyPairs == {[index |-> a, index2 |-> b] : a \in KeyCells, b \in KeyCells}

KeyInputs == {<<p, q>> : p \in KeyPairs, q \in KeyPairs}

KeySampleIds == <<<<"S", "1">>, <<"S", "2">>>>

\* the rows under the headers Sample_ID, Index2, Index, Sample_Project
keyRows2k(pairs) ==
  [i \in 1..Len(pairs) |-> <<KeySampleIds[i], pairs[i].index2, pairs[i].index, <<"P", "1">>>>]

\* the rows under the seven headers of validateSampleSheet
keyRows500(pairs) ==
  [i \in 1..Len(pairs) |->
     <<KeySampleIds[i], <<"d">>, <<"N", "7">>, pairs[i].index, <<"S", "5">>,
       pairs[i].index2, <<"P", "1">>>>]

\* lines of cells as text
sheetText(cellLines) ==
  join([i \in 1..Len(cellLines) |-> join(cellLines[i], Comma)], LF)

CallProcessRows == [fn |-> "processRows", replaceChar |-> "", collapseRepeat |-> FALSE]
CallValidate == [fn |-> "validateSampleSheet", replaceChar |-> "", collapseRepeat |-> FALSE]

KeyInit ==
  /\ input \in KeyInputs
  /\ prev = input
  /\ value = <<>>
  /\ applied = <<>>
  /\ PageInit

KeyCallProcessRows ==
  /\ applied = <<>>
  /\ prev' = value
  /\ value' = processRows(keyRows2k(input), HdrCanonical).duplicatedIndexes
  /\ applied' = <<CallProcessRows>>
  /\ UNCHANGED <<pageVars, input>>

KeyCallValidateSampleSheet2k ==
  /\ applied = <<>>
  /\ prev' = value
  /\ value' = validateSampleSheet2k(
                sheetText(<<<<DataMarker>>, HdrCanonical>> \o keyRows2k(input))).duplicatedIndexes
  /\ applied' = <<CallValidate2k>>
  /\ UNCHANGED <<pageVars, input>>

KeyCallValidateSampleSheet ==
  /\ applied = <<>>
  /\ prev' = value
  /\ value' = validateSampleSheet(
                sheetText(<<expectedHeader>> \o keyRows500(input))).duplicatedIndexes
  /\ applied' = <<CallValidate>>
  /\ UNCHANGED <<pageVars, input>>

KeyNext ==
  \/ KeyCallProcessRows
  \/ KeyCallValidateSampleSheet2k
  \/ KeyCallValidateSampleSheet

SpecKey == KeyInit /\ [][KeyNext]_vars

\* C29: a composite index key identifies its (index, index2) pair: two rows
\* are collected under one key, and so reported as a duplicate index
\* combination, only if they have equal index values and equal index2
\* values
C29_KeyIdentifiesPair ==
  (applied # <<>> /\ value # <<>>) =>
    input[1].index = input[2].index /\ input[1].index2 = input[2].index2

(***************************************************************************)
(* handleDuplicateSampleIds as a function of the rows handed to it, under  *)
(* the header row Sample_ID, Description, index.                           *)
(***************************************************************************)
MaxDedupRows == 3

DedupHeaders == <<SampleIdColumn, DescriptionColumn, <<"i", "n", "d", "e", "x">>>>

\* Sample_IDs: two plain ones and one that has the shape of a suffixed one
DedupIds == {<<"A">>, <<"B">>, <<"A", "_", "2">>}

\* a row whose Description repeats the Sample_ID, or holds a text of its own
DedupRowPool ==
  {<<id, id, <<"G", "G">>>> : id \in DedupIds} \cup {<<id, <<"d">>, <<"G", "G">>>> : id \in DedupIds}

RECURSIVE DedupRowSeqs(_)
DedupRowSeqs(n) ==
  IF n = 0 THEN {<<>>}
  ELSE DedupRowSeqs(n - 1)
         \cup {Append(rs, r) : rs \in DedupRowSeqs(n - 1), r \in DedupRowPool}

CallDedup == [fn |-> "handleDuplicateSampleIds", replaceChar |-> "", collapseRepeat |-> FALSE]

DedupInit ==
  /\ input \in DedupRowSeqs(MaxDedupRows)
  /\ prev = input
  /\ value = input
  /\ applied = <<>>
  /\ PageInit

CallHandleDuplicateSampleIds ==
  /\ applied = <<>>
  /\ prev' = value
  /\ value' = handleDuplicateSampleIds(value, DedupHeaders)
  /\ applied' = <<CallDedup>>
  /\ UNCHANGED <<pageVars, input>>

SpecDedup == DedupInit /\ [][CallHandleDuplicateSampleIds]_vars

\* C30: handleDuplicateSampleIds returns as many rows in the same order,
\* changes only Sample_ID cells and Description cells equal to the old
\* Sample_ID, and leaves no two rows with the same Sample_ID
C30_SampleIdsDecollided ==
  applied # <<>> =>
    /\ Len(value) = Len(input)
    /\ \A i \in 1..Len(value) :
         /\ Len(value[i]) = Len(input[i])
         /\ value[i][3] = input[i][3]
         /\ value[i][2] # input[i][2] => input[i][2] = input[i][1]
    /\ \A i, j \in 1..Len(value) : i # j => value[i][1] # value[j][1]

====
